---- MODULE Spec2Model ----
(***************************************************************************)
(* ToweringBot (src/towering_bot.py): the Bot controller's polling loop,   *)
(* the hotkey listener that flips its run flag, and the clock the timers   *)
(* read.                                                                   *)
(*                                                                         *)
(* Time is counted in tenths of a second, so every timing knob of the      *)
(* source is an integer (3.0 s = 30, 0.6 s = 6).  One poll of the loop     *)
(* body is one step taken at the instant `now`: every time.time() the      *)
(* poll makes reads `now`, and the time.sleep() calls of the body are      *)
(* part of the time that TickTo lets pass between two steps.               *)
(*                                                                         *)
(* Scores are percentages (0.55 = 55).  Every _scan_full/_scan_region      *)
(* call grabs the screen anew, so every scan draws its own score.          *)
(***************************************************************************)
EXTENDS Integers, Sequences, FiniteSets, TLC

(* ------------------------------ bounds -------------------------------- *)
\* time.time() when the process starts (tenths of a second since the epoch)
Epoch == 10000
\* the process is observed at multiples of TickStep tenths after its start
TickStep == 10
\* the most input-library calls one poll makes (LEAVE_PARTY: 2 clicks + esc)
MaxCalls == 5
\* the largest frame (width, height) and template side given to find_best
MaxW == 3
MaxH == 2
MaxTmpl == 2

(* ------------------------- CONFIG (lines 39-115) ---------------------- *)
CAPTAIN_DECLINE_GRACE == 30
CONFIRM_MONITOR_DURATION == 150
CONFIRM_GONE_MARGIN == 10
POST_LEAVE_WINDOW == 80
SPAM_FAILSAFE_SECS == 9600
FAILSAFE_RETRY_SECS == 20
MATCH_RETRY_COOLDOWN == 30
\* literals of the loop body
MATCH_CHECK_TIMEOUT == 50
LEAVE_RENDER_GRACE == 6
LEAVE_ICON_TIMEOUT == 50

THRESH ==
    [ F_TOWERING        |-> 55,
      BTN_TOWERING_HARD |-> 85,
      BTN_MATCH         |-> 88,
      BTN_DECLINE_CPT   |-> 80,
      LBL_MATCHING      |-> 37,
      BTN_CONFIRM_MATCH |-> 88,
      LBL_VICTORY       |-> 90,
      BTN_LEAVE_DUNGEON |-> 85,
      HUD_DUNGEON       |-> 80,
      BTN_LEAVE_ICON    |-> 90,
      BTN_CONFIRM_PARTY |-> 90 ]

TEMPLATES == DOMAIN THRESH

\* the two screen areas "Matching..." can live in (indices into the list)
MATCHING_REGIONS == <<"legacy", "newer">>

probe_order ==
    << "F_TOWERING", "BTN_TOWERING_HARD", "BTN_MATCH",
       "LBL_MATCHING", "BTN_CONFIRM_MATCH",
       "HUD_DUNGEON", "BTN_LEAVE_DUNGEON",
       "BTN_LEAVE_ICON", "BTN_CONFIRM_PARTY" >>

States ==
    { "WAIT_F", "WAIT_HARD", "WAIT_MATCH", "BECOME_CAPTAIN",
      "CHECK_MATCHING_UNTIL_CONFIRM", "CONFIRM_MONITOR", "LINKCLICK_SPAM",
      "WAIT_VICTORY_LEAVE", "POST_LEAVE_CHECK", "LEAVE_PARTY" }

(* ------------------------------ vision -------------------------------- *)
\* the best scores a grabbed frame may give for a template: just below its
\* threshold, and exactly on it
Scores(key) == { THRESH[key] - 1, THRESH[key] }

\* Vision.find_best returns a Match (not None) for a frame whose best
\* similarity is maxV
find_best_mut_gt(maxV, thr) == maxV > thr
find_best_mut_inverted(maxV, thr) == maxV <= thr
find_best(maxV, thr) == maxV >= thr

\* _scan_full(sct, key, THRESH[key]) is truthy
Hit(key, maxV) == find_best(maxV, THRESH[key])

(* ------------------------------- state -------------------------------- *)
VARIABLES
    bot,        \* the Bot object's controller fields (state, flags, stamps)
    running,    \* Bot.running
    exit_flag,  \* Bot.exit_flag
    pc,         \* where the loop thread is: head, body, done, crashed, killed
    now,        \* what time.time() returns
    ev,         \* what the last step did (scans, detections, input calls)
    entered,    \* the time of the poll that last changed bot.state
    quiet,      \* no awaited detection since bot.state was entered
    call,       \* the call under study outside the loop: its input and result
    rechecked   \* the time of the last cooldown re-check of the matching
                \* regions since the match flow began (0: none)

vars == <<bot, running, exit_flag, pc, now, ev, entered, quiet, call, rechecked>>

\* the order in which Vision.__init__ walks TEMPLATES.items()
TemplateOrder ==
    << "F_TOWERING", "BTN_TOWERING_HARD", "BTN_MATCH", "BTN_DECLINE_CPT",
       "LBL_MATCHING", "BTN_CONFIRM_MATCH", "LBL_VICTORY", "BTN_LEAVE_DUNGEON",
       "HUD_DUNGEON", "BTN_LEAVE_ICON", "BTN_CONFIRM_PARTY" >>

\* Vision.__init__ over the template files cv.imread can decode: the keys
\* loaded when it returns, or the key at which it raises FileNotFoundError
RECURSIVE LoadFrom(_, _, _)
LoadFrom(i, files, tmps) ==
    IF i > Len(TemplateOrder) THEN [raised |-> "", tmps |-> tmps]
    ELSE IF TemplateOrder[i] \notin files
    THEN [raised |-> TemplateOrder[i], tmps |-> tmps]
    ELSE LoadFrom(i + 1, files, tmps \cup {TemplateOrder[i]})

Vision_init_mut_skips_missing(files) == [raised |-> "", tmps |-> files]
Vision_init(files) == LoadFrom(1, files, {})

\* _run() started with these template files on disk
RunCall(files) == [fn |-> "_run", files |-> files]

\* Bot.__init__
InitBot ==
    [ state                 |-> "WAIT_F",
      hard_clicked          |-> FALSE,
      match_clicked         |-> FALSE,
      matching_seen         |-> FALSE,
      confirm_monitor_start |-> 0,
      last_confirm_seen     |-> 0,
      captain_wait_start    |-> 0,
      match_check_start     |-> 0,
      post_leave_start      |-> 0,
      after_leave_cycle     |-> FALSE,
      dungeon_timer_start   |-> 0,
      hud_timer_armed       |-> FALSE,
      failsafe_last_try_ts  |-> 0,
      leave_enter_ts        |-> 0,
      last_match_retry_ts   |-> 0,
      leave_probe_start_ts  |-> 0,
      leave_probe_done      |-> FALSE ]

\* Bot._full_reset
full_reset_mut_keeps_latch(b) ==
    [ b EXCEPT
        !.hard_clicked          = FALSE,
        !.match_clicked         = FALSE,
        !.confirm_monitor_start = 0,
        !.last_confirm_seen     = 0,
        !.captain_wait_start    = 0,
        !.match_check_start     = 0,
        !.after_leave_cycle     = FALSE,
        !.dungeon_timer_start   = 0,
        !.hud_timer_armed       = FALSE,
        !.failsafe_last_try_ts  = 0,
        !.leave_enter_ts        = 0,
        !.last_match_retry_ts   = 0,
        !.leave_probe_start_ts  = 0,
        !.leave_probe_done      = FALSE,
        !.state                 = "WAIT_F" ]
full_reset(b) ==
    [ b EXCEPT
        !.hard_clicked          = FALSE,
        !.match_clicked         = FALSE,
        !.matching_seen         = FALSE,
        !.confirm_monitor_start = 0,
        !.last_confirm_seen     = 0,
        !.captain_wait_start    = 0,
        !.match_check_start     = 0,
        !.after_leave_cycle     = FALSE,
        !.dungeon_timer_start   = 0,
        !.hud_timer_armed       = FALSE,
        !.failsafe_last_try_ts  = 0,
        !.leave_enter_ts        = 0,
        !.last_match_retry_ts   = 0,
        !.leave_probe_start_ts  = 0,
        !.leave_probe_done      = FALSE,
        !.state                 = "WAIT_F" ]

\* what a step that is no poll leaves in ev
NoPoll(kind) ==
    [ kind  |-> kind,  from  |-> bot.state,
      hud   |-> FALSE, fg    |-> FALSE, guard |-> FALSE,
      reset |-> FALSE, probe |-> FALSE, recheck |-> "",
      seen  |-> {},    acts  |-> <<>>,  scans |-> 0,   fscore |-> 0 ]

Init ==
    /\ bot = InitBot
    /\ running = FALSE
    /\ exit_flag = FALSE
    /\ pc = "head"
    /\ now = Epoch
    /\ ev = NoPoll("init")
    /\ entered = Epoch
    /\ quiet = TRUE
    /\ rechecked = 0
    /\ call = RunCall(TEMPLATES)

(* ----------------- the running poll: a record threaded ---------------- *)
(* through the statements of the loop body.  `halt` is set by an           *)
(* exception (crashed): the statements after it do not run.                *)

\* the frames the F-GUARD's two grabs may show
GuardFrames ==
    { [hud |-> Hit("HUD_DUNGEON", hs), fg |-> Hit("F_TOWERING", fs)] :
        hs \in Scores("HUD_DUNGEON"), fs \in Scores("F_TOWERING") }

\* the poll so far, after the F-GUARD's scans (HUD always, F unless in
\* LEAVE_PARTY or in the dungeon)
Begin(fail, g) ==
    [ bot   |-> bot,   acts  |-> <<>>,  halt  |-> FALSE, fail |-> fail,
      hud   |-> g.hud, fg    |-> g.fg,  guard |-> FALSE,
      reset |-> FALSE, probe |-> FALSE, seen  |-> {},  fscore |-> 0,
      recheck |-> "",
      scans |-> IF bot.state # "LEAVE_PARTY" /\ ~g.hud THEN 2 ELSE 1 ]

\* one call into the input library (pyautogui, pywinauto): it raises when it
\* is the poll's fail-th call, and the exception leaves the loop
Call(r, a) ==
    IF r.halt THEN r
    ELSE IF r.fail = Len(r.acts) + 1 THEN [r EXCEPT !.halt = TRUE]
    ELSE [r EXCEPT !.acts = Append(@, a)]

\* assignments to the Bot's fields: b is the new value of r.bot
Set(r, b) == IF r.halt THEN r ELSE [r EXCEPT !.bot = b]

\* one scan of the state logic, and whether it found the template
Scan(r, key, hit) ==
    IF r.halt THEN r
    ELSE [r EXCEPT !.scans = @ + 1, !.seen = IF hit THEN @ \cup {key} ELSE @]

\* Bot._press_f
press_f(r) == Call(Call(r, <<"keyDown", "f">>), <<"keyUp", "f">>)

\* Bot._press_h_once
press_h_once(r) == Call(Call(r, <<"keyDown", "h">>), <<"keyUp", "h">>)

\* Bot._click_at(m.center) for the match m of template key
click_at(r, key) == Call(Call(r, <<"moveTo", key>>), <<"click", key>>)

\* pyautogui.press(k)
press(r, k) == Call(r, <<"press", k>>)

\* mouse.click(button='left')
mouse_click(r) == Call(r, <<"mouse.click", "left">>)

\* self._full_reset() inside a poll
Reset(r) == IF r.halt THEN r ELSE [r EXCEPT !.bot = full_reset(@), !.reset = TRUE]

\* the detections each state waits for
AwaitedKeys(st) ==
    CASE st = "WAIT_F"             -> {"F_TOWERING"}
      [] st = "WAIT_HARD"          -> {"BTN_TOWERING_HARD"}
      [] st = "WAIT_MATCH"         -> {"BTN_MATCH"}
      [] st = "BECOME_CAPTAIN"     -> {"BTN_DECLINE_CPT"}
      [] st = "CHECK_MATCHING_UNTIL_CONFIRM"
                                   -> {"LBL_MATCHING", "BTN_MATCH", "BTN_CONFIRM_MATCH"}
      [] st = "CONFIRM_MONITOR"    -> {"BTN_CONFIRM_MATCH", "LBL_VICTORY"}
      [] st = "LINKCLICK_SPAM"     -> {"BTN_CONFIRM_MATCH", "LBL_VICTORY", "BTN_CONFIRM_PARTY"}
      [] st = "WAIT_VICTORY_LEAVE" -> {"BTN_LEAVE_DUNGEON"}
      [] st = "POST_LEAVE_CHECK"   -> {"BTN_CONFIRM_MATCH", "F_TOWERING"}
      [] st = "LEAVE_PARTY"        -> {"BTN_LEAVE_ICON", "BTN_CONFIRM_PARTY", "F_TOWERING"}

\* the states between the Match click and the confirm popup: the controller
\* leaves them for CONFIRM_MONITOR, LEAVE_PARTY or (by a reset) WAIT_F, and
\* comes back only through a full reset
MatchFlow == {"BECOME_CAPTAIN", "CHECK_MATCHING_UNTIL_CONFIRM"}

\* the end of a poll (continue, or the exception leaving loop())
Commit(r) ==
    /\ bot' = r.bot
    /\ pc' = IF r.halt THEN "crashed" ELSE "head"
    /\ ev' = [ kind  |-> "poll",  from  |-> bot.state,
               hud   |-> r.hud,   fg    |-> r.fg,    guard |-> r.guard,
               reset |-> r.reset, probe |-> r.probe, recheck |-> r.recheck,
               seen  |-> r.seen,  acts  |-> r.acts,  scans |-> r.scans,
               fscore |-> r.fscore ]
    /\ entered' = IF r.bot.state # bot.state THEN now ELSE entered
    /\ quiet' = IF r.bot.state # bot.state THEN TRUE
                ELSE quiet /\ r.seen \cap AwaitedKeys(bot.state) = {}
    /\ rechecked' = IF r.recheck # "" THEN now
                    ELSE IF r.bot.state \in MatchFlow THEN rechecked
                    ELSE 0
    /\ UNCHANGED <<running, exit_flag, now, call>>

(* ----------------------------- Bot.loop ------------------------------- *)
\* while not self.exit_flag
LoopContinues_mut_ignores_exit == TRUE
LoopContinues == ~exit_flag

\* the loop's test finds exit_flag set: loop() returns
LoopExit ==
    /\ pc = "head"
    /\ ~LoopContinues
    /\ pc' = "done"
    /\ ev' = NoPoll("exit")
    /\ UNCHANGED <<bot, running, exit_flag, now, entered, quiet, rechecked, call>>

\* if not self.running: time.sleep(0.05); continue
Idle ==
    /\ pc = "head"
    /\ LoopContinues
    /\ ~running
    /\ ev' = NoPoll("idle")
    /\ UNCHANGED <<bot, running, exit_flag, pc, now, entered, quiet, rechecked, call>>

\* the iteration goes on to the F-GUARD and the state logic
LoopEnter_mut_ignores_running ==
    /\ pc = "head"
    /\ LoopContinues
    /\ pc' = "body"
    /\ ev' = NoPoll("enter")
    /\ UNCHANGED <<bot, running, exit_flag, now, entered, quiet, rechecked, call>>
LoopEnter ==
    /\ pc = "head"
    /\ LoopContinues
    /\ running
    /\ pc' = "body"
    /\ ev' = NoPoll("enter")
    /\ UNCHANGED <<bot, running, exit_flag, now, entered, quiet, rechecked, call>>

\* the F-GUARD's condition, on what its grabs show
GuardFires_mut_as_spec(st, g) ==
    st # "LEAVE_PARTY" /\ g.hud /\ g.fg /\ st # "WAIT_F"
GuardFires_mut_in_leave_party(st, g) ==
    ~g.hud /\ g.fg /\ st # "WAIT_F"
GuardFires_mut_ignores_hud(st, g) ==
    st # "LEAVE_PARTY" /\ g.fg /\ st # "WAIT_F"
GuardFires(st, g) ==
    st # "LEAVE_PARTY" /\ ~g.hud /\ g.fg /\ st # "WAIT_F"

\* the key whose scan opens the state logic of st: when the guard pre-empts
\* the poll, ev.seen still tells whether that key was on the screen
FirstKey(st) ==
    CASE st = "WAIT_HARD"          -> "BTN_TOWERING_HARD"
      [] st = "WAIT_MATCH"         -> "BTN_MATCH"
      [] st = "BECOME_CAPTAIN"     -> "BTN_DECLINE_CPT"
      [] st = "CHECK_MATCHING_UNTIL_CONFIRM" -> "BTN_CONFIRM_MATCH"
      [] st = "CONFIRM_MONITOR"    -> "BTN_CONFIRM_MATCH"
      [] st = "LINKCLICK_SPAM"     -> "BTN_CONFIRM_MATCH"
      [] st = "WAIT_VICTORY_LEAVE" -> "BTN_LEAVE_DUNGEON"
      [] st = "POST_LEAVE_CHECK"   -> "BTN_CONFIRM_MATCH"
      [] OTHER                     -> "F_TOWERING"

\* F-GUARD: F_TOWERING visible outside WAIT_F -> reset to WAIT_F, continue
FGuard_mut_presses_f ==
    /\ pc = "body"
    /\ \E g \in GuardFrames, s \in Scores(FirstKey(bot.state)) :
          /\ GuardFires(bot.state, g)
          /\ LET r0 == Begin(0, g)
                 r1 == [r0 EXCEPT !.guard = TRUE,
                                  !.seen = IF Hit(FirstKey(bot.state), s)
                                           THEN {FirstKey(bot.state)} ELSE {}]
             IN  Commit(Reset(press_f(r1)))
FGuard ==
    /\ pc = "body"
    /\ \E g \in GuardFrames, s \in Scores(FirstKey(bot.state)) :
          /\ GuardFires(bot.state, g)
          /\ LET r0 == Begin(0, g)
                 r1 == [r0 EXCEPT !.guard = TRUE,
                                  !.seen = IF Hit(FirstKey(bot.state), s)
                                           THEN {FirstKey(bot.state)} ELSE {}]
             IN  Commit(Reset(r1))

\* 1) WAIT_F
WaitF(FailAt) ==
    /\ pc = "body"
    /\ bot.state = "WAIT_F"
    /\ \E fail \in FailAt, g \in GuardFrames, s \in Scores("F_TOWERING") :
          /\ ~GuardFires(bot.state, g)
          /\ LET f  == Hit("F_TOWERING", s)
                 r1 == Scan([Begin(fail, g) EXCEPT !.fscore = s], "F_TOWERING", f)
             IN  IF f
                 THEN Commit(Set(press_f(r1), [press_f(r1).bot EXCEPT !.state = "WAIT_HARD"]))
                 ELSE Commit(r1)

\* 2) WAIT_HARD (one shot)
WaitHard_mut_waits_for_hard(FailAt) ==
    /\ pc = "body"
    /\ bot.state = "WAIT_HARD"
    /\ \E fail \in FailAt, g \in GuardFrames, s \in Scores("BTN_TOWERING_HARD") :
          /\ ~GuardFires(bot.state, g)
          /\ LET r0 == Begin(fail, g)
                 h  == ~bot.hard_clicked /\ Hit("BTN_TOWERING_HARD", s)
                 r1 == IF bot.hard_clicked THEN r0
                       ELSE Scan(r0, "BTN_TOWERING_HARD", h)
                 r2 == click_at(r1, "BTN_TOWERING_HARD")
                 r3 == Set(r2, [r2.bot EXCEPT !.hard_clicked = TRUE])
             IN  IF h THEN Commit(Set(r3, [r3.bot EXCEPT !.state = "WAIT_MATCH"]))
                 ELSE Commit(r1)
WaitHard(FailAt) ==
    /\ pc = "body"
    /\ bot.state = "WAIT_HARD"
    /\ \E fail \in FailAt, g \in GuardFrames, s \in Scores("BTN_TOWERING_HARD") :
          /\ ~GuardFires(bot.state, g)
          /\ LET r0 == Begin(fail, g)
                 h  == ~bot.hard_clicked /\ Hit("BTN_TOWERING_HARD", s)
                 r1 == IF bot.hard_clicked THEN r0
                       ELSE Scan(r0, "BTN_TOWERING_HARD", h)
                 r2 == click_at(r1, "BTN_TOWERING_HARD")
                 r3 == IF h THEN Set(r2, [r2.bot EXCEPT !.hard_clicked = TRUE])
                       ELSE r1
             IN  Commit(Set(r3, [r3.bot EXCEPT !.state = "WAIT_MATCH"]))

\* 3) WAIT_MATCH (one shot)
WaitMatch_mut_no_timer(FailAt) ==
    /\ pc = "body"
    /\ bot.state = "WAIT_MATCH"
    /\ \E fail \in FailAt, g \in GuardFrames, s \in Scores("BTN_MATCH") :
          /\ ~GuardFires(bot.state, g)
          /\ LET r0 == Begin(fail, g)
                 m  == ~bot.match_clicked /\ Hit("BTN_MATCH", s)
                 r1 == IF bot.match_clicked THEN r0 ELSE Scan(r0, "BTN_MATCH", m)
                 r2 == click_at(r1, "BTN_MATCH")
             IN  IF m
                 THEN Commit(Set(r2, [r2.bot EXCEPT !.match_clicked = TRUE,
                                                    !.state = "BECOME_CAPTAIN"]))
                 ELSE Commit(r1)
WaitMatch(FailAt) ==
    /\ pc = "body"
    /\ bot.state = "WAIT_MATCH"
    /\ \E fail \in FailAt, g \in GuardFrames, s \in Scores("BTN_MATCH") :
          /\ ~GuardFires(bot.state, g)
          /\ LET r0 == Begin(fail, g)
                 m  == ~bot.match_clicked /\ Hit("BTN_MATCH", s)
                 r1 == IF bot.match_clicked THEN r0 ELSE Scan(r0, "BTN_MATCH", m)
                 r2 == click_at(r1, "BTN_MATCH")
             IN  IF m
                 THEN Commit(Set(r2, [r2.bot EXCEPT !.match_clicked = TRUE,
                                                    !.captain_wait_start = now,
                                                    !.state = "BECOME_CAPTAIN"]))
                 ELSE Commit(r1)

\* (time.time() - self.captain_wait_start) >= CAPTAIN_DECLINE_GRACE
CaptainGraceOver_mut_gt(b, t) == t - b.captain_wait_start > CAPTAIN_DECLINE_GRACE
CaptainGraceOver(b, t) == t - b.captain_wait_start >= CAPTAIN_DECLINE_GRACE

\* pyautogui.press('esc'); pyautogui.press('i'); then into LEAVE_PARTY
EscapeToLeaveParty_mut_no_stamp(r) ==
    LET r1 == press(press(r, "esc"), "i")
    IN  Set(r1, [r1.bot EXCEPT !.state = "LEAVE_PARTY"])
EscapeToLeaveParty_mut_rearms(r) ==
    LET r1 == press(press(r, "esc"), "i")
    IN  Set(r1, [r1.bot EXCEPT !.leave_enter_ts = now, !.match_clicked = FALSE,
                               !.state = "LEAVE_PARTY"])
EscapeToLeaveParty(r) ==
    LET r1 == press(press(r, "esc"), "i")
    IN  Set(r1, [r1.bot EXCEPT !.leave_enter_ts = now, !.state = "LEAVE_PARTY"])

\* 4) BECOME_CAPTAIN
BecomeCaptain_mut_timer_first(FailAt) ==
    /\ pc = "body"
    /\ bot.state = "BECOME_CAPTAIN"
    /\ \E fail \in FailAt, g \in GuardFrames, s \in Scores("BTN_DECLINE_CPT") :
          /\ ~GuardFires(bot.state, g)
          /\ LET d  == Hit("BTN_DECLINE_CPT", s)
                 r1 == Scan(Begin(fail, g), "BTN_DECLINE_CPT", d)
                 r2 == click_at(r1, "BTN_DECLINE_CPT")
             IN  IF CaptainGraceOver(r1.bot, now)
                 THEN Commit(EscapeToLeaveParty(r1))
                 ELSE IF d
                 THEN Commit(Set(r2, [r2.bot EXCEPT
                                        !.match_check_start = now,
                                        !.state = "CHECK_MATCHING_UNTIL_CONFIRM"]))
                 ELSE Commit(r1)
BecomeCaptain(FailAt) ==
    /\ pc = "body"
    /\ bot.state = "BECOME_CAPTAIN"
    /\ \E fail \in FailAt, g \in GuardFrames, s \in Scores("BTN_DECLINE_CPT") :
          /\ ~GuardFires(bot.state, g)
          /\ LET d  == Hit("BTN_DECLINE_CPT", s)
                 r1 == Scan(Begin(fail, g), "BTN_DECLINE_CPT", d)
                 r2 == click_at(r1, "BTN_DECLINE_CPT")
             IN  IF d
                 THEN Commit(Set(r2, [r2.bot EXCEPT
                                        !.match_check_start = now,
                                        !.state = "CHECK_MATCHING_UNTIL_CONFIRM"]))
                 ELSE IF CaptainGraceOver(r1.bot, now)
                 THEN Commit(EscapeToLeaveParty(r1))
                 ELSE Commit(r1)

\* what the grabs of the two MATCHING_REGIONS may show for LBL_MATCHING
RegionFrames ==
    { <<Hit("LBL_MATCHING", a), Hit("LBL_MATCHING", b)>> :
        a \in Scores("LBL_MATCHING"), b \in Scores("LBL_MATCHING") }

\* for rp in MATCHING_REGIONS: _scan_region(...); break on the first match
ScanRegions(r, h) ==
    LET r1 == Scan(r, "LBL_MATCHING", h[1])
    IN  IF h[1] THEN r1 ELSE Scan(r1, "LBL_MATCHING", h[2])

\* (now - self.last_match_retry_ts) >= MATCH_RETRY_COOLDOWN
RetryDue_mut_always(b, t) == TRUE
RetryDue(b, t) == t - b.last_match_retry_ts >= MATCH_RETRY_COOLDOWN

\* (not self.matching_seen) and ((now - self.match_check_start) > 5.0)
MatchCheckTimedOut_mut_ge(b, t) ==
    ~b.matching_seen /\ t - b.match_check_start >= MATCH_CHECK_TIMEOUT
MatchCheckTimedOut(b, t) ==
    ~b.matching_seen /\ t - b.match_check_start > MATCH_CHECK_TIMEOUT

\* a click on BTN_CONFIRM_MATCH that leads into CONFIRM_MONITOR
ConfirmClicked_mut_stale_seen(r) ==
    LET r1 == click_at(r, "BTN_CONFIRM_MATCH")
    IN  Set(r1, [r1.bot EXCEPT !.confirm_monitor_start = now,
                               !.state = "CONFIRM_MONITOR"])
ConfirmClicked(r) ==
    LET r1 == click_at(r, "BTN_CONFIRM_MATCH")
    IN  Set(r1, [r1.bot EXCEPT !.confirm_monitor_start = now,
                               !.last_confirm_seen = now,
                               !.state = "CONFIRM_MONITOR"])

\* 5) the end of the CHECK_MATCHING_UNTIL_CONFIRM logic: hunt CONFIRM, else
\* time out into LEAVE_PARTY
CheckMatchingTail(r) ==
    \E s \in Scores("BTN_CONFIRM_MATCH") :
       LET cfm == Hit("BTN_CONFIRM_MATCH", s)
           r1  == Scan(r, "BTN_CONFIRM_MATCH", cfm)
       IN  IF cfm THEN Commit(ConfirmClicked(r1))
           ELSE IF MatchCheckTimedOut(r1.bot, now)
           THEN Commit(EscapeToLeaveParty(r1))
           ELSE Commit(r1)

\* 5) the cooldown re-check of "Matching...", and the Match retry
CheckMatchingRetry(r) ==
    IF ~RetryDue(r.bot, now) THEN CheckMatchingTail(r)
    ELSE \E h \in RegionFrames, s \in Scores("BTN_MATCH") :
       LET still_matching == h[1] \/ h[2]
           mbtn == ~still_matching /\ Hit("BTN_MATCH", s)
           r0 == IF r.halt THEN r
                 ELSE [r EXCEPT !.recheck = IF still_matching THEN "matching"
                                            ELSE "absent"]
           r1 == ScanRegions(r0, h)
           r2 == Scan(r1, "BTN_MATCH", mbtn)
           r3 == click_at(r2, "BTN_MATCH")
       IN  IF still_matching THEN CheckMatchingTail(r1)
           ELSE IF mbtn
           THEN Commit(Set(r3, [r3.bot EXCEPT !.captain_wait_start = now,
                                              !.last_match_retry_ts = now,
                                              !.state = "BECOME_CAPTAIN"]))
           ELSE CheckMatchingTail(
                    Set(r2, [r2.bot EXCEPT !.last_match_retry_ts = now]))

\* 5) CHECK_MATCHING_UNTIL_CONFIRM
CheckMatching(FailAt) ==
    /\ pc = "body"
    /\ bot.state = "CHECK_MATCHING_UNTIL_CONFIRM"
    /\ \E fail \in FailAt, g \in GuardFrames, h \in RegionFrames :
          /\ ~GuardFires(bot.state, g)
          /\ LET r0 == Begin(fail, g)
                 r1 == ScanRegions(r0, h)
                 found == h[1] \/ h[2]
             IN  IF bot.matching_seen THEN CheckMatchingRetry(r0)
                 ELSE IF found
                 THEN CheckMatchingRetry(
                          Set(r1, [r1.bot EXCEPT !.matching_seen = TRUE]))
                 ELSE CheckMatchingRetry(r1)

\* what the HUD grab of _maybe_arm_hud_timer may show (no grab once armed)
ArmFrames(b) ==
    IF b.hud_timer_armed THEN {FALSE}
    ELSE { Hit("HUD_DUNGEON", s) : s \in Scores("HUD_DUNGEON") }

\* Bot._maybe_arm_hud_timer
maybe_arm_hud_timer_mut_restarts(r, hud) ==
    IF r.halt THEN r
    ELSE LET r1 == IF r.bot.hud_timer_armed THEN r ELSE Scan(r, "HUD_DUNGEON", hud)
             r2 == Set(r1, [r1.bot EXCEPT !.dungeon_timer_start = now,
                                          !.hud_timer_armed = TRUE])
         IN  IF hud THEN press_h_once(r2)
             ELSE IF r.bot.hud_timer_armed THEN r2
             ELSE r1
maybe_arm_hud_timer(r, hud) ==
    IF r.halt \/ r.bot.hud_timer_armed THEN r
    ELSE LET r1 == Scan(r, "HUD_DUNGEON", hud)
             r2 == Set(r1, [r1.bot EXCEPT !.dungeon_timer_start = now,
                                          !.hud_timer_armed = TRUE])
         IN  IF hud THEN press_h_once(r2) ELSE r1

\* (now - self.confirm_monitor_start) >= CONFIRM_MONITOR_DURATION
MonitorWindowOver_mut_plus_margin(b, t) ==
    t - b.confirm_monitor_start >= CONFIRM_MONITOR_DURATION + CONFIRM_GONE_MARGIN
MonitorWindowOver(b, t) ==
    t - b.confirm_monitor_start >= CONFIRM_MONITOR_DURATION

\* (now - self.last_confirm_seen) > CONFIRM_GONE_MARGIN
ConfirmGone(b, t) == t - b.last_confirm_seen > CONFIRM_GONE_MARGIN

\* 6) CONFIRM_MONITOR
ConfirmMonitor_mut_window_first(FailAt) ==
    /\ pc = "body"
    /\ bot.state = "CONFIRM_MONITOR"
    /\ \E fail \in FailAt, g \in GuardFrames, hud \in ArmFrames(bot),
          cs \in Scores("BTN_CONFIRM_MATCH"), vs \in Scores("LBL_VICTORY") :
          /\ ~GuardFires(bot.state, g)
          /\ LET cfm == Hit("BTN_CONFIRM_MATCH", cs)
                 vic == Hit("LBL_VICTORY", vs)
                 r1 == maybe_arm_hud_timer(Begin(fail, g), hud)
                 r2 == Scan(r1, "BTN_CONFIRM_MATCH", cfm)
                 r3 == IF cfm
                       THEN click_at(Set(r2, [r2.bot EXCEPT !.last_confirm_seen = now]),
                                     "BTN_CONFIRM_MATCH")
                       ELSE r2
                 r4 == Scan(r3, "LBL_VICTORY", vic)
             IN  IF MonitorWindowOver(r4.bot, now)
                 THEN IF ConfirmGone(r4.bot, now)
                      THEN Commit(Set(r4, [r4.bot EXCEPT !.state = "LINKCLICK_SPAM"]))
                      ELSE Commit(Set(r4, [r4.bot EXCEPT !.confirm_monitor_start = now]))
                 ELSE IF vic
                 THEN Commit(Set(r4, [r4.bot EXCEPT !.state = "WAIT_VICTORY_LEAVE"]))
                 ELSE Commit(r4)
ConfirmMonitor(FailAt) ==
    /\ pc = "body"
    /\ bot.state = "CONFIRM_MONITOR"
    /\ \E fail \in FailAt, g \in GuardFrames, hud \in ArmFrames(bot),
          cs \in Scores("BTN_CONFIRM_MATCH"), vs \in Scores("LBL_VICTORY") :
          /\ ~GuardFires(bot.state, g)
          /\ LET cfm == Hit("BTN_CONFIRM_MATCH", cs)
                 vic == Hit("LBL_VICTORY", vs)
                 r1 == maybe_arm_hud_timer(Begin(fail, g), hud)
                 r2 == Scan(r1, "BTN_CONFIRM_MATCH", cfm)
                 r3 == IF cfm
                       THEN click_at(Set(r2, [r2.bot EXCEPT !.last_confirm_seen = now]),
                                     "BTN_CONFIRM_MATCH")
                       ELSE r2
                 r4 == Scan(r3, "LBL_VICTORY", vic)
             IN  IF vic
                 THEN Commit(Set(r4, [r4.bot EXCEPT !.state = "WAIT_VICTORY_LEAVE"]))
                 ELSE IF MonitorWindowOver(r4.bot, now)
                 THEN IF ConfirmGone(r4.bot, now)
                      THEN Commit(Set(r4, [r4.bot EXCEPT !.state = "LINKCLICK_SPAM"]))
                      ELSE Commit(Set(r4, [r4.bot EXCEPT !.confirm_monitor_start = now]))
                 ELSE Commit(r4)

\* the HUD-armed failsafe is due, and its last try is FAILSAFE_RETRY_SECS old
FailsafeDue_mut_no_wait(b, t) ==
    /\ b.hud_timer_armed /\ b.dungeon_timer_start > 0
    /\ t - b.failsafe_last_try_ts >= FAILSAFE_RETRY_SECS
FailsafeDue(b, t) ==
    /\ b.hud_timer_armed /\ b.dungeon_timer_start > 0
    /\ t - b.dungeon_timer_start >= SPAM_FAILSAFE_SECS
    /\ t - b.failsafe_last_try_ts >= FAILSAFE_RETRY_SECS

\* 7) the end of the LINKCLICK_SPAM logic: confirm, victory, or one click
LinkclickSpamTail_mut_clicks_always(r) ==
    \E cs \in Scores("BTN_CONFIRM_MATCH"), vs \in Scores("LBL_VICTORY") :
       LET cfm == Hit("BTN_CONFIRM_MATCH", cs)
           vic == ~cfm /\ Hit("LBL_VICTORY", vs)
           r1 == Scan(r, "BTN_CONFIRM_MATCH", cfm)
           r2 == ConfirmClicked(r1)
           r3 == Scan(r1, "LBL_VICTORY", vic)
       IN  IF cfm
           THEN Commit(mouse_click(Set(r2, [r2.bot EXCEPT !.matching_seen = TRUE])))
           ELSE IF vic
           THEN Commit(mouse_click(Set(r3, [r3.bot EXCEPT !.state = "WAIT_VICTORY_LEAVE"])))
           ELSE Commit(mouse_click(r3))
LinkclickSpamTail(r) ==
    \E cs \in Scores("BTN_CONFIRM_MATCH"), vs \in Scores("LBL_VICTORY") :
       LET cfm == Hit("BTN_CONFIRM_MATCH", cs)
           vic == ~cfm /\ Hit("LBL_VICTORY", vs)
           r1 == Scan(r, "BTN_CONFIRM_MATCH", cfm)
           r2 == ConfirmClicked(r1)
           r3 == Scan(r1, "LBL_VICTORY", vic)
       IN  IF cfm
           THEN Commit(Set(r2, [r2.bot EXCEPT !.matching_seen = TRUE]))
           ELSE IF vic
           THEN Commit(Set(r3, [r3.bot EXCEPT !.state = "WAIT_VICTORY_LEAVE"]))
           ELSE Commit(mouse_click(r3))

\* 7) LINKCLICK_SPAM
LinkclickSpam(FailAt) ==
    /\ pc = "body"
    /\ bot.state = "LINKCLICK_SPAM"
    /\ \E fail \in FailAt, g \in GuardFrames, hud \in ArmFrames(bot),
          ps \in Scores("BTN_CONFIRM_PARTY") :
          /\ ~GuardFires(bot.state, g)
          /\ LET r1 == maybe_arm_hud_timer(Begin(fail, g), hud)
                 cf == Hit("BTN_CONFIRM_PARTY", ps)
                 r2 == Scan(press(r1, "p"), "BTN_CONFIRM_PARTY", cf)
                 r3 == click_at(r2, "BTN_CONFIRM_PARTY")
                 r4 == Set(r3, [r3.bot EXCEPT !.post_leave_start = now,
                                              !.after_leave_cycle = TRUE])
                 r5 == Reset(r4)
             IN  IF ~FailsafeDue(r1.bot, now) THEN LinkclickSpamTail(r1)
                 ELSE IF cf
                 THEN Commit(Set(r5, [r5.bot EXCEPT !.post_leave_start = now,
                                                    !.state = "POST_LEAVE_CHECK"]))
                 ELSE LinkclickSpamTail(
                          Set(r2, [r2.bot EXCEPT !.failsafe_last_try_ts = now]))

\* 8) WAIT_VICTORY_LEAVE
WaitVictoryLeave(FailAt) ==
    /\ pc = "body"
    /\ bot.state = "WAIT_VICTORY_LEAVE"
    /\ \E fail \in FailAt, g \in GuardFrames, s \in Scores("BTN_LEAVE_DUNGEON") :
          /\ ~GuardFires(bot.state, g)
          /\ LET lv == Hit("BTN_LEAVE_DUNGEON", s)
                 r1 == Scan(Begin(fail, g), "BTN_LEAVE_DUNGEON", lv)
                 r2 == click_at(r1, "BTN_LEAVE_DUNGEON")
             IN  IF lv
                 THEN Commit(Set(r2, [r2.bot EXCEPT !.post_leave_start = now,
                                                    !.after_leave_cycle = TRUE,
                                                    !.state = "POST_LEAVE_CHECK"]))
                 ELSE Commit(r1)

\* (now - self.post_leave_start) > POST_LEAVE_WINDOW
PostLeaveWindowOver_mut_ge(b, t) == t - b.post_leave_start >= POST_LEAVE_WINDOW
PostLeaveWindowOver_mut_swapped(b, t) == b.post_leave_start - t > POST_LEAVE_WINDOW
PostLeaveWindowOver(b, t) == t - b.post_leave_start > POST_LEAVE_WINDOW

\* 9) POST_LEAVE_CHECK
PostLeaveCheck(FailAt) ==
    /\ pc = "body"
    /\ bot.state = "POST_LEAVE_CHECK"
    /\ \E fail \in FailAt, g \in GuardFrames,
          cs \in Scores("BTN_CONFIRM_MATCH"), fs \in Scores("F_TOWERING") :
          /\ ~GuardFires(bot.state, g)
          /\ LET cfm == Hit("BTN_CONFIRM_MATCH", cs)
                 f   == ~cfm /\ Hit("F_TOWERING", fs)
                 r1 == Scan(Begin(fail, g), "BTN_CONFIRM_MATCH", cfm)
                 r2 == ConfirmClicked(r1)
                 r3 == Scan(r1, "F_TOWERING", f)
             IN  IF cfm
                 THEN Commit(Set(r2, [r2.bot EXCEPT !.matching_seen = TRUE]))
                 ELSE IF f THEN Commit(Reset(r3))
                 ELSE IF PostLeaveWindowOver(r3.bot, now) THEN Commit(Reset(r3))
                 ELSE Commit(r3)

\* self.leave_enter_ts and (time.time() - self.leave_enter_ts) < 0.6
InRenderGrace(b, t) ==
    b.leave_enter_ts # 0 /\ t - b.leave_enter_ts < LEAVE_RENDER_GRACE

\* (now - self.leave_enter_ts) >= 5.0
LeaveIconTimedOut_mut_gt(b, t) == t - b.leave_enter_ts > LEAVE_ICON_TIMEOUT
LeaveIconTimedOut(b, t) == t - b.leave_enter_ts >= LEAVE_ICON_TIMEOUT

\* Bot._probe_any_asset: scans probe_order up to its first hit, the k-th
\* template (k = 0: no asset detected)
probe_any_asset(r, k) ==
    IF r.halt THEN r
    ELSE [r EXCEPT !.probe = TRUE,
                   !.scans = @ + (IF k = 0 THEN Len(probe_order) ELSE k)]

\* (not self.leave_probe_done) and (time.time() - self.leave_probe_start_ts >= 0.0)
ProbeDue_mut_ignores_done(b, t) == t - b.leave_probe_start_ts >= 0
ProbeDue(b, t) == ~b.leave_probe_done /\ t - b.leave_probe_start_ts >= 0

\* 10) LEAVE_PARTY, primary path: leave icon, party confirm, ESC, reset
LeavePartyIcon_mut_needs_confirm(r) ==
    \E s \in Scores("BTN_CONFIRM_PARTY") :
       LET cf == Hit("BTN_CONFIRM_PARTY", s)
           r1 == click_at(r, "BTN_LEAVE_ICON")
           r2 == Scan(r1, "BTN_CONFIRM_PARTY", cf)
           r3 == IF cf THEN click_at(r2, "BTN_CONFIRM_PARTY") ELSE r2
       IN  IF cf THEN Commit(Reset(press(r3, "esc")))
           ELSE Commit(press(r3, "esc"))
LeavePartyIcon(r) ==
    \E s \in Scores("BTN_CONFIRM_PARTY") :
       LET cf == Hit("BTN_CONFIRM_PARTY", s)
           r1 == click_at(r, "BTN_LEAVE_ICON")
           r2 == Scan(r1, "BTN_CONFIRM_PARTY", cf)
           r3 == IF cf THEN click_at(r2, "BTN_CONFIRM_PARTY") ELSE r2
       IN  Commit(Reset(press(r3, "esc")))

\* 10) LEAVE_PARTY, after 5 s without the leave icon: ESC, look for F, probe
LeavePartyTimeout(r) ==
    \E s \in Scores("F_TOWERING"), k \in 0..Len(probe_order) :
       LET f  == Hit("F_TOWERING", s)
           r1 == Scan(press(r, "esc"), "F_TOWERING", f)
           r2 == probe_any_asset(r1, k)
       IN  IF f THEN Commit(Reset(r1))
           ELSE IF r1.bot.leave_probe_start_ts = 0
           THEN Commit(Set(r1, [r1.bot EXCEPT !.leave_probe_start_ts = now]))
           ELSE IF ProbeDue(r1.bot, now)
           THEN Commit(Set(r2, [r2.bot EXCEPT !.leave_probe_done = TRUE]))
           ELSE Commit(r1)

\* 10) LEAVE_PARTY
LeaveParty(FailAt) ==
    /\ pc = "body"
    /\ bot.state = "LEAVE_PARTY"
    /\ \E fail \in FailAt, g \in GuardFrames, s \in Scores("BTN_LEAVE_ICON") :
          /\ ~GuardFires(bot.state, g)
          /\ LET r0 == Begin(fail, g)
                 lp == Hit("BTN_LEAVE_ICON", s)
                 r1 == Scan(r0, "BTN_LEAVE_ICON", lp)
             IN  IF InRenderGrace(bot, now) THEN Commit(r0)
                 ELSE IF lp THEN LeavePartyIcon(r1)
                 ELSE IF LeaveIconTimedOut(r1.bot, now) THEN LeavePartyTimeout(r1)
                 ELSE Commit(r1)

\* one iteration's body, in whatever state the controller is
Poll(FailAt) ==
    \/ WaitF(FailAt)
    \/ WaitHard(FailAt)
    \/ WaitMatch(FailAt)
    \/ BecomeCaptain(FailAt)
    \/ CheckMatching(FailAt)
    \/ ConfirmMonitor(FailAt)
    \/ LinkclickSpam(FailAt)
    \/ WaitVictoryLeave(FailAt)
    \/ PostLeaveCheck(FailAt)
    \/ LeaveParty(FailAt)

(* ------------------------- the other threads -------------------------- *)
\* the keyboard.Listener of _run is up: the process runs, Bot() returned, and
\* no F10 yet
ListenerUp == ~exit_flag /\ pc \notin {"absent", "start", "aborted", "killed"}

\* on_press(F8)
PressF8_mut_restarts_timer ==
    /\ ListenerUp
    /\ running' = TRUE
    /\ bot' = IF bot.state = "BECOME_CAPTAIN"
              THEN [bot EXCEPT !.captain_wait_start = now] ELSE bot
    /\ ev' = NoPoll("key")
    /\ UNCHANGED <<exit_flag, pc, now, entered, quiet, rechecked, call>>
PressF8 ==
    /\ ListenerUp
    /\ running' = TRUE
    /\ ev' = NoPoll("key")
    /\ UNCHANGED <<bot, exit_flag, pc, now, entered, quiet, rechecked, call>>

\* on_press(F9)
PressF9_mut_resets ==
    /\ ListenerUp
    /\ running' = FALSE
    /\ bot' = full_reset(bot)
    /\ ev' = NoPoll("key")
    /\ UNCHANGED <<exit_flag, pc, now, entered, quiet, rechecked, call>>
PressF9 ==
    /\ ListenerUp
    /\ running' = FALSE
    /\ ev' = NoPoll("key")
    /\ UNCHANGED <<bot, exit_flag, pc, now, entered, quiet, rechecked, call>>

\* on_press(F10): sets exit_flag and returns False, which stops the listener
PressF10 ==
    /\ ListenerUp
    /\ exit_flag' = TRUE
    /\ ev' = NoPoll("key")
    /\ UNCHANGED <<bot, running, pc, now, entered, quiet, rechecked, call>>

\* _run returns once the listener has stopped: the process ends, and with it
\* the daemon thread that runs loop(), wherever it is
ProcessExit ==
    /\ exit_flag
    /\ pc \in {"head", "body"}
    /\ pc' = "killed"
    /\ ev' = NoPoll("kill")
    /\ UNCHANGED <<bot, running, exit_flag, now, entered, quiet, rechecked, call>>

\* time passes: the clock moves on to a later one of the instants at which
\* the process is observed, k * TickStep after its start for k \in K
TickTo(K) ==
    /\ pc \in {"head", "body"}
    /\ \E k \in K :
          /\ now < Epoch + k * TickStep
          /\ now' = Epoch + k * TickStep
    /\ ev' = NoPoll("tick")
    /\ UNCHANGED <<bot, running, exit_flag, pc, entered, quiet, rechecked, call>>

\* the input library never raises (pyautogui.FAILSAFE = False)
NoFail == {0}

\* any one call of a poll may raise
AnyFail == 0..MaxCalls

(* --------------------------- specifications --------------------------- *)
\* the observation instants of each specification, in TickSteps
Instants == {15}
RunInstants == {3, 8, 15}
MonitorInstants == {1, 15, 16}
FailsafeInstants == {15, 960, 975}

\* the whole program: loop thread, hotkey listener, process exit
Next ==
    \/ LoopExit
    \/ Idle
    \/ LoopEnter
    \/ FGuard
    \/ Poll(NoFail)
    \/ PressF8
    \/ PressF9
    \/ PressF10
    \/ ProcessExit
    \/ TickTo(Instants)

Spec == Init /\ [][Next]_vars

\* the same under fair scheduling of the thread that runs loop(): a loop
\* that can return does, and an iteration that has begun completes
SpecFair == Spec /\ WF_vars(LoopExit) /\ WF_vars(FGuard \/ Poll(NoFail))

\* the controller once started (F8) and neither paused nor stopped: a pause
\* is a delay and a stop cuts the run short, so this loses no poll
NextRun ==
    \/ Idle
    \/ LoopEnter
    \/ FGuard
    \/ Poll(NoFail)
    \/ PressF8
    \/ TickTo(RunInstants)

SpecRun == Init /\ [][NextRun]_vars

\* the same, observed over the confirm-monitor window
NextMonitor ==
    \/ Idle
    \/ LoopEnter
    \/ FGuard
    \/ Poll(NoFail)
    \/ PressF8
    \/ TickTo(MonitorInstants)

SpecMonitor == Init /\ [][NextMonitor]_vars

\* the same, observed up to the 16-minute failsafe of LINKCLICK_SPAM
NextFailsafe ==
    \/ Idle
    \/ LoopEnter
    \/ FGuard
    \/ Poll(NoFail)
    \/ PressF8
    \/ TickTo(FailsafeInstants)

SpecFailsafe == Init /\ [][NextFailsafe]_vars

\* the same, with an input library whose calls may raise
NextInputFail ==
    \/ Idle
    \/ LoopEnter
    \/ FGuard
    \/ Poll(AnyFail)
    \/ PressF8
    \/ TickTo(Instants)

SpecInputFail == Init /\ [][NextInputFail]_vars

\* time passes only while the controller is paused and its loop idles, so
\* that whatever time has passed in a state has passed in a pause
PauseInstants == {3, 15}

PausedTick ==
    /\ ~running
    /\ pc = "head"
    /\ TickTo(PauseInstants)

\* the controller started, paused and resumed at will (F8, F9)
NextPause ==
    \/ Idle
    \/ LoopEnter
    \/ FGuard
    \/ Poll(NoFail)
    \/ PressF8
    \/ PressF9
    \/ PausedTick

SpecPause == Init /\ [][NextPause]_vars

\* no Bot object (Bot() has not returned)
NoBot == [state |-> "NONE"]

\* the process before _run has run, with any set of template files on disk
InitStartup ==
    /\ bot = NoBot
    /\ running = FALSE
    /\ exit_flag = FALSE
    /\ pc = "start"
    /\ now = Epoch
    /\ ev = NoPoll("init")
    /\ entered = Epoch
    /\ quiet = TRUE
    /\ rechecked = 0
    /\ call \in { RunCall(files) : files \in SUBSET TEMPLATES }

\* _run: bot = Bot() (which builds Vision(TEMPLATES)), then the loop thread
\* and the listener; an exception of Bot() ends the process first
Startup ==
    /\ pc = "start"
    /\ IF Vision_init(call.files).raised = ""
       THEN bot' = InitBot /\ pc' = "head" /\ ev' = NoPoll("start")
       ELSE bot' = bot /\ pc' = "aborted" /\ ev' = NoPoll("abort")
    /\ UNCHANGED <<running, exit_flag, now, entered, quiet, rechecked, call>>

\* the whole program from the start of the process
NextStartup ==
    \/ Startup
    \/ LoopExit
    \/ Idle
    \/ LoopEnter
    \/ FGuard
    \/ Poll(NoFail)
    \/ PressF8
    \/ PressF9
    \/ PressF10
    \/ ProcessExit
    \/ TickTo(Instants)

SpecStartup == InitStartup /\ [][NextStartup]_vars

(* ------------------- Vision.find_best as a function ------------------- *)
\* what a function returns when it returns None, and a call not yet made
None == [name |-> "None"]
Raised == [name |-> "raised"]
Pending == [name |-> "pending"]

\* the offsets at which a tw x th template fits into a W x H frame
Offsets(W, H, tw, th) == (0..(W - tw)) \X (0..(H - th))

\* a frame and a template: their sizes and, for the content, what
\* cv.matchTemplate computes from them (a score at every offset)
Frames ==
    UNION { { [W |-> d[1], H |-> d[2], tw |-> d[3], th |-> d[4], res |-> r] :
                r \in [Offsets(d[1], d[2], d[3], d[4]) -> Scores("F_TOWERING")] } :
            d \in (1..MaxW) \X (1..MaxH) \X (1..MaxTmpl) \X (1..MaxTmpl) }

\* the thresholds a caller may pass
Thresholds ==
    { THRESH["F_TOWERING"] - 1, THRESH["F_TOWERING"], THRESH["F_TOWERING"] + 1 }

\* cv.minMaxLoc: the largest score and the first offset (row by row) with it
MaxV(res) == CHOOSE v \in { res[p] : p \in DOMAIN res } :
                 \A q \in DOMAIN res : res[q] <= v
MaxL(res) == CHOOSE p \in DOMAIN res :
                 /\ res[p] = MaxV(res)
                 /\ \A q \in DOMAIN res :
                       res[q] = MaxV(res) =>
                          (p[2] < q[2] \/ (p[2] = q[2] /\ p[1] <= q[1]))

\* if H < tmpl.shape[0] or W < tmpl.shape[1]
TooSmall_mut_and(f) == f.H < f.th /\ f.W < f.tw
TooSmall(f) == f.H < f.th \/ f.W < f.tw

\* Match(key, (x, y), (x+w, y+h), maxV)
Match_mut_local_corner(key, x, y, w, h, score) ==
    [ name |-> key, top_left |-> <<x, y>>, bottom_right |-> <<w, h>>,
      score |-> score ]
Match(key, x, y, w, h, score) ==
    [ name |-> key, top_left |-> <<x, y>>, bottom_right |-> <<x + w, y + h>>,
      score |-> score ]

\* Vision.find_best: what it returns (out) and whether it ran
\* cv.matchTemplate (searched), which raises on a frame the template
\* does not fit into
find_best_frame(f, key, thr) ==
    IF TooSmall(f) THEN [out |-> None, searched |-> FALSE]
    ELSE IF DOMAIN f.res = {} THEN [out |-> Raised, searched |-> TRUE]
    ELSE LET maxV == MaxV(f.res)
             maxL == MaxL(f.res)
         IN  [ out |-> IF find_best(maxV, thr)
                       THEN Match(key, maxL[1], maxL[2], f.tw, f.th, maxV)
                       ELSE None,
               searched |-> TRUE ]

\* a call of find_best about to be made on some frame with some threshold
InitFindBest ==
    /\ bot = InitBot
    /\ running = FALSE
    /\ exit_flag = FALSE
    /\ pc = "call"
    /\ now = Epoch
    /\ ev = NoPoll("init")
    /\ entered = Epoch
    /\ quiet = TRUE
    /\ rechecked = 0
    /\ call \in { [fn |-> "find_best", frame |-> f, thr |-> t,
                    out |-> Pending, searched |-> FALSE] :
                  f \in Frames, t \in Thresholds }

\* the call is made
FindBest ==
    /\ pc = "call"
    /\ call.fn = "find_best"
    /\ LET r == find_best_frame(call.frame, "F_TOWERING", call.thr)
       IN  call' = [call EXCEPT !.out = r.out, !.searched = r.searched]
    /\ pc' = "returned"
    /\ UNCHANGED <<bot, running, exit_flag, now, ev, entered, quiet, rechecked>>

NextFindBest == FindBest

SpecFindBest == InitFindBest /\ [][NextFindBest]_vars

(* ----------------- Bot._scan_full and Bot._scan_region ----------------- *)
\* int(n / d) for d > 0: Python's int() drops the fraction, towards zero
Trunc(n, d) == IF n >= 0 THEN n \div d ELSE -((-n) \div d)

\* the largest integer at or below n / d, for d > 0
Floor(n, d) == n \div d

\* where _monitor_bbox may put the captured area's left or top edge
Origins == { -MaxW, 0, MaxW }

\* region_percent tuples (rx, ry, rw, rh), in hundredths
RegionPercents ==
    { <<0, 0, 100, 100>>, <<50, 0, 50, 100>>, <<0, 50, 100, 50>>,
      <<50, 50, 50, 50>> }

\* box = dict(left=int(L + rx*W), top=int(T + ry*H),
\*            width=int(rw*W), height=int(rh*H))
RegionBox(full, rp) ==
    [ left   |-> Trunc(100 * full.left + rp[1] * full.width, 100),
      top    |-> Trunc(100 * full.top + rp[2] * full.height, 100),
      width  |-> Trunc(rp[3] * full.width, 100),
      height |-> Trunc(rp[4] * full.height, 100) ]

\* self._grab(sct, box): the part of the screen inside box; the template's
\* score at an offset of the part is its score at that place of the screen
Grab(full, screen, box) ==
    [ W |-> box.width, H |-> box.height, tw |-> screen.tw, th |-> screen.th,
      res |-> [ p \in Offsets(box.width, box.height, screen.tw, screen.th) |->
                  screen.res[<< p[1] + box.left - full.left,
                                p[2] + box.top - full.top >>] ] ]

\* Match(m.name, top_left + box origin, bottom_right + box origin, m.score)
ToAbsolute_mut_local(m, box) == m
ToAbsolute(m, box) ==
    IF m = None THEN None
    ELSE [ name |-> m.name,
           top_left |-> << m.top_left[1] + box.left, m.top_left[2] + box.top >>,
           bottom_right |-> << m.bottom_right[1] + box.left,
                               m.bottom_right[2] + box.top >>,
           score |-> m.score ]

\* the monitor box of a screen
FullBox(left, top, screen) ==
    [ left |-> left, top |-> top, width |-> screen.W, height |-> screen.H ]

\* Bot._scan_full
scan_full(full, screen, key, thr) ==
    ToAbsolute(find_best_frame(Grab(full, screen, full), key, thr).out, full)

\* Bot._scan_region
scan_region(full, screen, key, rp, thr) ==
    LET box == RegionBox(full, rp)
    IN  ToAbsolute(find_best_frame(Grab(full, screen, box), key, thr).out, box)

\* a call of _scan_region about to be made: a screen at some place of the
\* desktop, and a region of it that is at least one pixel wide and high
InitScan ==
    /\ bot = InitBot
    /\ running = FALSE
    /\ exit_flag = FALSE
    /\ pc = "call"
    /\ now = Epoch
    /\ ev = NoPoll("init")
    /\ entered = Epoch
    /\ quiet = TRUE
    /\ rechecked = 0
    /\ call \in { c \in [ fn : {"_scan_region"}, screen : Frames,
                          left : Origins, top : {-MaxH, 0}, rp : RegionPercents,
                          thr : {THRESH["F_TOWERING"]}, out : {Pending} ] :
                    /\ RegionBox(FullBox(c.left, c.top, c.screen), c.rp).width >= 1
                    /\ RegionBox(FullBox(c.left, c.top, c.screen), c.rp).height >= 1
                    /\ c.screen.W >= c.screen.tw /\ c.screen.H >= c.screen.th }

\* the call is made
ScanRegion ==
    /\ pc = "call"
    /\ call.fn = "_scan_region"
    /\ call' = [call EXCEPT !.out =
                   scan_region(FullBox(call.left, call.top, call.screen),
                               call.screen, "LBL_MATCHING", call.rp, call.thr)]
    /\ pc' = "returned"
    /\ UNCHANGED <<bot, running, exit_flag, now, ev, entered, quiet, rechecked>>

NextScan == ScanRegion

SpecScan == InitScan /\ [][NextScan]_vars

(* -------------------- the launcher (src/bot_gui.py) ------------------- *)
\* BlueBotGUI: status_state ("idle", "running", "paused") and self.proc (None
\* or the Popen handle of the bot it launched last); files are the template
\* files next to the bot script
Gui(files, status, proc) ==
    [ fn |-> "BlueBotGUI", files |-> files, status_state |-> status,
      proc |-> proc ]

\* the template files the launched script may find: all, or all but one
Installs == {TEMPLATES} \cup { TEMPLATES \ {k} : k \in TEMPLATES }

\* the bot process is alive (proc.poll() is None): pc is "absent" before any
\* launch, "aborted" or "killed" once the process has ended
BotAlive == pc \in {"start", "head", "body", "done"}

\* self.proc and self.proc.poll() is None
ProcRunning == call.proc # "None" /\ BotAlive

\* BlueBotGUI.__init__: no process, status idle
InitGui ==
    /\ bot = NoBot
    /\ running = FALSE
    /\ exit_flag = FALSE
    /\ pc = "absent"
    /\ now = Epoch
    /\ ev = NoPoll("init")
    /\ entered = Epoch
    /\ quiet = TRUE
    /\ rechecked = 0
    /\ call \in { Gui(files, "idle", "None") : files \in Installs }

\* start_bot (Start button, Ctrl-R) when no launched process is alive: the
\* status is set to running, then Popen launches the script or raises
start_bot ==
    /\ call.fn = "BlueBotGUI"
    /\ ~ProcRunning
    /\ \E launched \in BOOLEAN :
          IF launched
          THEN /\ call' = [call EXCEPT !.status_state = "running", !.proc = "Popen"]
               /\ pc' = "start"
               /\ bot' = NoBot
               /\ running' = FALSE
               /\ exit_flag' = FALSE
          ELSE /\ call' = [call EXCEPT !.status_state = "idle"]
               /\ UNCHANGED <<bot, running, exit_flag, pc>>
    /\ ev' = NoPoll("gui")
    /\ UNCHANGED <<now, entered, quiet, rechecked>>

\* kill_bot (Kill button, Ctrl-K): terminate the process if it is alive, then
\* _cleanup_proc and status idle
kill_bot ==
    /\ call.fn = "BlueBotGUI"
    /\ pc' = IF ProcRunning THEN "killed" ELSE pc
    /\ call' = [call EXCEPT !.proc = "None", !.status_state = "idle"]
    /\ ev' = NoPoll("gui")
    /\ UNCHANGED <<bot, running, exit_flag, now, entered, quiet, rechecked>>

\* the status _send_key sets after the key went out
StatusAfter(k) ==
    CASE k = "f8" -> "running" [] k = "f9" -> "paused" [] k = "f10" -> "idle"

\* _send_key(k): pyautogui.keyDown(k), keyUp(k), then the status; fail = 1:
\* keyDown raises, fail = 2: keyUp raises (the except shows a message box).
\* The Run, Pause and Exit buttons are enabled from start_bot to
\* _cleanup_proc; Ctrl-P (f9) and Ctrl-E (f10) are bound at all times. The
\* key reaches the bot's listener, if one is up, as a hotkey of _run.
send_key(k) ==
    /\ call.fn = "BlueBotGUI"
    /\ k = "f8" => call.proc # "None"
    /\ \E fail \in 0..2 :
          /\ call' = IF fail = 0 THEN [call EXCEPT !.status_state = StatusAfter(k)]
                     ELSE call
          /\ running' = IF fail # 1 /\ ListenerUp /\ k \in {"f8", "f9"}
                        THEN k = "f8" ELSE running
          /\ exit_flag' = IF fail # 1 /\ ListenerUp /\ k = "f10"
                          THEN TRUE ELSE exit_flag
    /\ ev' = NoPoll("gui")
    /\ UNCHANGED <<bot, pc, now, entered, quiet, rechecked>>

\* the launcher, the start of the bot it launches and the end of that
\* process; the loop thread is left out: it writes neither flag
NextGui ==
    \/ start_bot
    \/ kill_bot
    \/ send_key("f8")
    \/ send_key("f9")
    \/ send_key("f10")
    \/ Startup
    \/ ProcessExit

SpecGui == InitGui /\ [][NextGui]_vars

(* ------------------------------- claims ------------------------------- *)
\* a poll has just been taken from controller state st
Polled(st) == ev.kind = "poll" /\ ev.from = st

\* C1: _full_reset, called in any state the controller can be in, leaves
\* state = WAIT_F and every field equal to its constructor value, including
\* post_leave_start.
C1_FullResetRestoresConstructor == full_reset(bot) = InitBot

\* C2 as stated: a poll's F-GUARD forces the reset if and only if HUD_DUNGEON
\* and F_TOWERING are both detected and the state is neither WAIT_F nor
\* LEAVE_PARTY.
C2_GuardIffHudAndPrompt ==
    ev.kind = "poll" =>
        (ev.guard <=> (ev.hud /\ ev.fg /\ ev.from \notin {"WAIT_F", "LEAVE_PARTY"}))

\* C2 as amended: a poll's F-GUARD forces the reset if and only if HUD_DUNGEON
\* is NOT detected, F_TOWERING is detected and the state is neither WAIT_F
\* nor LEAVE_PARTY; the poll then ends reset, in WAIT_F.
C2_GuardIffPromptWithoutHud ==
    ev.kind = "poll" =>
        /\ ev.guard <=> (~ev.hud /\ ev.fg /\ ev.from \notin {"WAIT_F", "LEAVE_PARTY"})
        /\ ev.guard => (ev.reset /\ bot.state = "WAIT_F")

C2_Witness ==
    /\ Polled("CONFIRM_MONITOR")
    /\ ev.guard /\ ~ev.hud /\ ev.fg
    /\ bot.state = "WAIT_F"

C9_WaitFPressesOnce ==
    Polled("WAIT_F") =>
        IF ev.fscore >= THRESH["F_TOWERING"]
        THEN /\ ev.acts = <<<<"keyDown", "f">>, <<"keyUp", "f">>>>
             /\ bot.state = "WAIT_HARD"
        ELSE /\ ev.acts = <<>>
             /\ bot.state = "WAIT_F"

C9_Witness ==
    /\ Polled("WAIT_F")
    /\ ev.fscore = THRESH["F_TOWERING"]
    /\ ev.acts = <<<<"keyDown", "f">>, <<"keyUp", "f">>>>
    /\ bot.state = "WAIT_HARD"

\* C10: an input call that raises never ends the loop.
C10_InputFailureSwallowed == pc # "crashed"

\* a step that is a poll of state st in which the guard does not fire and
\* none of the keys in K is detected
MissPoll(st, K) ==
    /\ pc = "body" /\ bot.state = st
    /\ ev'.kind = "poll" /\ ~ev'.guard
    /\ ev'.seen \cap K = {}

EscapeActs == <<<<"press", "esc">>, <<"press", "i">>>>

\* the states C3 names
WaitStates ==
    { "WAIT_MATCH", "BECOME_CAPTAIN", "CHECK_MATCHING_UNTIL_CONFIRM",
      "CONFIRM_MONITOR", "LINKCLICK_SPAM", "WAIT_VICTORY_LEAVE",
      "POST_LEAVE_CHECK", "LEAVE_PARTY" }

\* the longest of the controller's wait timers that leave a state
WaitBound == CONFIRM_MONITOR_DURATION + CONFIRM_GONE_MARGIN

\* C3 as stated: in each of the eight waiting states, with no awaited
\* detection since the state was entered, a poll taken WaitBound or more
\* after the entry leaves the state. (LINKCLICK_SPAM is held to this only
\* while its failsafe timer is not armed.)
C3_EveryWaitTimesOut ==
    [][ \A st \in WaitStates :
          ( /\ MissPoll(st, AwaitedKeys(st))
            /\ quiet
            /\ st = "LINKCLICK_SPAM" => ~bot'.hud_timer_armed
            /\ now - entered >= WaitBound )
          => bot'.state # st ]_vars

\* the waiting states that have a timer which leaves the state
TimedOut(st) ==
    CASE st = "BECOME_CAPTAIN"   -> now - entered >= CAPTAIN_DECLINE_GRACE
      [] st = "CHECK_MATCHING_UNTIL_CONFIRM"
                                 -> ~bot.matching_seen
                                    /\ now - entered > MATCH_CHECK_TIMEOUT
      [] st = "CONFIRM_MONITOR"  -> now - entered >= CONFIRM_MONITOR_DURATION
      [] st = "POST_LEAVE_CHECK" -> now - entered > POST_LEAVE_WINDOW
      [] OTHER                   -> FALSE

\* C3 as amended: BECOME_CAPTAIN, CHECK_MATCHING_UNTIL_CONFIRM entered
\* without the matching latch, CONFIRM_MONITOR and POST_LEAVE_CHECK leave the
\* state at the first poll past their timer when no awaited detection has
\* occurred since the entry.
C3_TimedWaitsTimeOut ==
    [][ \A st \in WaitStates :
          ( /\ MissPoll(st, AwaitedKeys(st))
            /\ quiet
            /\ TimedOut(st) )
          => bot'.state # st ]_vars

C3_Witness ==
    /\ Polled("POST_LEAVE_CHECK")
    /\ ~ev.guard /\ ev.seen = {}
    /\ bot.state = "WAIT_F" /\ ev.reset
    /\ now - bot.post_leave_start > POST_LEAVE_WINDOW

C6_SpamAtSixteen ==
    [][ MissPoll("CONFIRM_MONITOR", {"BTN_CONFIRM_MATCH", "LBL_VICTORY"}) =>
          ( bot'.state = "LINKCLICK_SPAM"
            <=> now - bot.last_confirm_seen
                  >= CONFIRM_MONITOR_DURATION + CONFIRM_GONE_MARGIN ) ]_vars

\* C6 as amended: such a poll goes to LINKCLICK_SPAM exactly when the monitor
\* window (CONFIRM_MONITOR_DURATION since confirm_monitor_start) is over and
\* confirm was last seen more than CONFIRM_GONE_MARGIN ago; that is never
\* later than the first poll at or after T + 16.0 s, and when T is the entry
\* into CONFIRM_MONITOR it is the first poll at or after T + 15.0 s.
C6_SpamWhenWindowOverAndGone ==
    [][ MissPoll("CONFIRM_MONITOR", {"BTN_CONFIRM_MATCH", "LBL_VICTORY"}) =>
          /\ bot'.state = "LINKCLICK_SPAM"
               <=> ( /\ now - bot.confirm_monitor_start >= CONFIRM_MONITOR_DURATION
                     /\ now - bot.last_confirm_seen > CONFIRM_GONE_MARGIN )
          /\ now - bot.last_confirm_seen
               >= CONFIRM_MONITOR_DURATION + CONFIRM_GONE_MARGIN
               => bot'.state = "LINKCLICK_SPAM"
          /\ bot.last_confirm_seen = entered
               => ( bot'.state = "LINKCLICK_SPAM"
                    <=> now - entered >= CONFIRM_MONITOR_DURATION ) ]_vars

C6_Witness ==
    /\ Polled("CONFIRM_MONITOR")
    /\ ~ev.guard /\ ev.seen \cap {"BTN_CONFIRM_MATCH", "LBL_VICTORY"} = {}
    /\ bot.state = "LINKCLICK_SPAM"
    /\ now - bot.last_confirm_seen >= CONFIRM_MONITOR_DURATION
    /\ now - bot.last_confirm_seen < CONFIRM_MONITOR_DURATION + CONFIRM_GONE_MARGIN

\* C7: a BECOME_CAPTAIN poll that does not detect the decline control stays,
\* with no input action, while less than CAPTAIN_DECLINE_GRACE has passed
\* since the state was entered; otherwise it presses ESC then I, once each,
\* and goes to LEAVE_PARTY.
C7_CaptainGrace ==
    [][ MissPoll("BECOME_CAPTAIN", {"BTN_DECLINE_CPT"}) =>
          IF now - entered < CAPTAIN_DECLINE_GRACE
          THEN bot'.state = "BECOME_CAPTAIN" /\ ev'.acts = <<>>
          ELSE bot'.state = "LEAVE_PARTY" /\ ev'.acts = EscapeActs ]_vars

C7_Witness ==
    /\ Polled("BECOME_CAPTAIN")
    /\ ~ev.guard /\ ev.seen = {}
    /\ ev.acts = EscapeActs
    /\ bot.state = "LEAVE_PARTY"
    /\ now - bot.captain_wait_start = CAPTAIN_DECLINE_GRACE

C11_LeavePartyOnlyResets ==
    [][ (pc = "body" /\ bot.state = "LEAVE_PARTY" /\ ev'.kind = "poll") =>
          /\ ~ev'.guard
          /\ bot'.state \in {"LEAVE_PARTY", "WAIT_F"}
          /\ bot'.state = "WAIT_F" =>
               /\ ev'.reset
               /\ \/ "BTN_LEAVE_ICON" \in ev'.seen
                  \/ /\ "F_TOWERING" \in ev'.seen
                     /\ now - entered >= LEAVE_ICON_TIMEOUT ]_vars

C11_Witness ==
    /\ Polled("LEAVE_PARTY")
    /\ ev.fg /\ ~ev.hud
    /\ ~ev.guard /\ ~ev.reset
    /\ bot.state = "LEAVE_PARTY"
    /\ now - bot.leave_enter_ts >= LEAVE_RENDER_GRACE

\* the latches and one-shot flags C12 names
Latches ==
    { "matching_seen", "hard_clicked", "match_clicked", "hud_timer_armed",
      "leave_probe_done" }

\* C12: a latch or one-shot flag that is true becomes false only in a step
\* that is a poll which performed _full_reset.
C12_LatchesHoldUntilReset ==
    [][ \A l \in Latches :
          (bot[l] /\ ~bot'[l]) => (ev'.kind = "poll" /\ ev'.reset) ]_vars

C12_Witness ==
    /\ Polled("CONFIRM_MONITOR")
    /\ ~ev.reset /\ "HUD_DUNGEON" \notin ev.seen
    /\ bot.hard_clicked /\ bot.match_clicked
    /\ bot.matching_seen /\ bot.hud_timer_armed
    /\ bot.state = "LINKCLICK_SPAM"

\* C13: a step that changes running or exit_flag (a hotkey) changes neither
\* the controller's fields nor the loop's position; a step that changes a
\* field of the controller is a step of an iteration of the loop, and no step
\* of the loop changes running or exit_flag.
C13_WritersAreDisjoint ==
    [][ /\ <<running, exit_flag>>' # <<running, exit_flag>>
             => UNCHANGED <<bot, pc>>
        /\ bot' # bot => (pc = "body" /\ UNCHANGED <<running, exit_flag>>)
        /\ pc' # pc => UNCHANGED <<running, exit_flag>> ]_vars

C13_Witness ==
    /\ ev.kind = "key"
    /\ ~running /\ ~exit_flag
    /\ pc = "body"
    /\ bot.state = "CONFIRM_MONITOR" /\ bot.matching_seen

\* C14: an iteration that finds the run flag not running goes back to the
\* head of the loop with no scan, no input action and no field of the
\* controller changed, and neither it nor a hotkey changes the controller, so
\* that a start after a pause resumes from the same state, flags and latches.
\* (An iteration that had passed its test of the flag when the pause arrived
\* completes as an iteration of a running controller.)
C14_PausedIterationIsIdle ==
    [][ /\ (pc = "head" /\ ~running) =>
              /\ pc' \in {"head", "done", "killed"}
              /\ bot' = bot
              /\ ev'.scans = 0 /\ ev'.acts = <<>>
        /\ ev'.kind \in {"idle", "key"} => bot' = bot ]_vars

C14_Witness ==
    /\ ev.kind = "idle"
    /\ ~running /\ pc = "head"
    /\ bot.state = "CONFIRM_MONITOR"
    /\ bot.matching_seen /\ bot.hud_timer_armed

\* C15: when a declared template does not load, startup aborts: no Bot
\* exists and from then on nothing happens (no poll, no input action, no
\* hotkey); the loop runs only when every declared template has loaded.
C15_MissingTemplateAborts ==
    [][ /\ (pc = "start" /\ call.files # TEMPLATES) =>
              (pc' = "aborted" /\ bot' = NoBot /\ ev'.acts = <<>> /\ ev'.scans = 0)
        /\ pc = "aborted" => UNCHANGED vars
        /\ pc' \in {"head", "body", "done", "killed"} => call.files = TEMPLATES
        /\ ev'.kind = "poll" => call.files = TEMPLATES ]_vars

C15_Witness ==
    /\ pc = "aborted"
    /\ bot = NoBot
    /\ Vision_init(call.files).raised = "BTN_CONFIRM_PARTY"
    /\ ~running /\ ev.acts = <<>>

\* C16: on a frame lower or narrower than the template, find_best returns
\* None, does not raise and does not run the similarity search. (Frames are
\* grabbed images: at least one pixel wide and high.)
C16_SmallFrameSkipsSearch ==
    (pc = "returned" /\ call.fn = "find_best"
       /\ (call.frame.H < call.frame.th \/ call.frame.W < call.frame.tw)) =>
        /\ call.out = None
        /\ ~call.searched

C16_Witness ==
    /\ pc = "returned" /\ call.fn = "find_best"
    /\ call.frame.H < call.frame.th /\ call.frame.W >= call.frame.tw
    /\ call.out = None /\ ~call.searched

\* a call of find_best has returned from a frame the template fits into
ReturnedFromSearch ==
    /\ pc = "returned" /\ call.fn = "find_best"
    /\ call.frame.H >= call.frame.th /\ call.frame.W >= call.frame.tw

\* C17: on a frame at least as large as the template, find_best returns a
\* detection if and only if some offset scores at or above the threshold
\* (that is, the best score does); the detection carries the best score, an
\* offset that has it as top-left, and top-left plus the template's size as
\* bottom-right.
C17_DetectionIffBestScoreReachesThreshold ==
    ReturnedFromSearch =>
        LET res == call.frame.res
            out == call.out
        IN  /\ call.searched
            /\ out # None <=> \E p \in DOMAIN res : res[p] >= call.thr
            /\ out # None =>
                 /\ \A q \in DOMAIN res : res[q] <= out.score
                 /\ out.top_left \in DOMAIN res
                 /\ res[out.top_left] = out.score
                 /\ out.bottom_right = << out.top_left[1] + call.frame.tw,
                                          out.top_left[2] + call.frame.th >>

C17_Witness ==
    /\ ReturnedFromSearch
    /\ call.out # None
    /\ call.out.score = call.thr
    /\ call.out.top_left = <<1, 0>>
    /\ call.out.bottom_right = <<1 + call.frame.tw, call.frame.th>>

\* C18: a detection that find_best returns at a threshold is also what it
\* returns, for the same frame and template, at every lower threshold.
C18_ThresholdMonotone ==
    (pc = "returned" /\ call.fn = "find_best" /\ call.out # None) =>
        \A t1 \in Thresholds :
            t1 < call.thr =>
               find_best_frame(call.frame, "F_TOWERING", t1).out = call.out

C18_Witness ==
    /\ pc = "returned" /\ call.fn = "find_best"
    /\ call.out # None
    /\ call.thr = THRESH["F_TOWERING"]
    /\ find_best_frame(call.frame, "F_TOWERING", call.thr - 1).out = call.out

\* a call of _scan_region has returned a detection
RegionDetection ==
    pc = "returned" /\ call.fn = "_scan_region" /\ call.out # None

\* the region-local match of the call: what find_best returned on the grab
LocalMatch ==
    LET full == FullBox(call.left, call.top, call.screen)
    IN  find_best_frame(Grab(full, call.screen, RegionBox(full, call.rp)),
                        "LBL_MATCHING", call.thr).out

\* the detection is the region-local match moved by origin, and for the
\* region (0, 0, 1, 1) it is what _scan_full returns
MovedBy(origin) ==
    /\ LocalMatch # None
    /\ call.out.top_left = << LocalMatch.top_left[1] + origin[1],
                              LocalMatch.top_left[2] + origin[2] >>
    /\ call.out.bottom_right = << LocalMatch.bottom_right[1] + origin[1],
                                  LocalMatch.bottom_right[2] + origin[2] >>
    /\ call.rp = <<0, 0, 100, 100>> =>
          call.out = scan_full(FullBox(call.left, call.top, call.screen),
                               call.screen, "LBL_MATCHING", call.thr)

\* C19 as stated: a detection of _scan_region is the region-local match
\* moved by (left + floor(rx*W), top + floor(ry*H)).
C19_RegionOriginIsFloor ==
    RegionDetection =>
        MovedBy(<< call.left + Floor(call.rp[1] * call.screen.W, 100),
                   call.top + Floor(call.rp[2] * call.screen.H, 100) >>)

\* C19 as amended: a detection of _scan_region is the region-local match
\* moved by (int(left + rx*W), int(top + ry*H)), the origin of the box that
\* was grabbed, int() dropping the fraction towards zero; its top-left is a
\* place of the screen where the template scores what the detection says.
C19_RegionOriginIsTruncated ==
    RegionDetection =>
        /\ MovedBy(<< Trunc(100 * call.left + call.rp[1] * call.screen.W, 100),
                      Trunc(100 * call.top + call.rp[2] * call.screen.H, 100) >>)
        /\ call.screen.res[<< call.out.top_left[1] - call.left,
                              call.out.top_left[2] - call.top >>] = call.out.score

C19_Witness ==
    /\ RegionDetection
    /\ call.rp = <<50, 0, 50, 100>>
    /\ call.left < 0 /\ call.screen.W = 3
    /\ call.out.top_left[1] = call.left + 2

\* the input calls of a poll include pyautogui.press('p')
PressedP(acts) == \E i \in 1..Len(acts) : acts[i] = <<"press", "p">>

\* C20: a LINKCLICK_SPAM poll presses P only when the failsafe timer was
\* armed SPAM_FAILSAFE_SECS or more before; when BTN_CONFIRM_PARTY is then
\* detected the poll clicks it and ends in POST_LEAVE_CHECK with
\* post_leave_start = now and every other field at its reset value; no other
\* LINKCLICK_SPAM poll ends in POST_LEAVE_CHECK.
C20_FailsafeOnlyWhenDue ==
    [][ (pc = "body" /\ bot.state = "LINKCLICK_SPAM"
           /\ ev'.kind = "poll" /\ ~ev'.guard) =>
          /\ PressedP(ev'.acts) =>
               /\ bot.hud_timer_armed
               /\ now - bot.dungeon_timer_start >= SPAM_FAILSAFE_SECS
               /\ "BTN_CONFIRM_PARTY" \in ev'.seen =>
                    /\ ev'.acts = << <<"press", "p">>,
                                    <<"moveTo", "BTN_CONFIRM_PARTY">>,
                                    <<"click", "BTN_CONFIRM_PARTY">> >>
                    /\ bot' = [InitBot EXCEPT !.state = "POST_LEAVE_CHECK",
                                              !.post_leave_start = now]
          /\ bot'.state = "POST_LEAVE_CHECK" =>
               (PressedP(ev'.acts) /\ "BTN_CONFIRM_PARTY" \in ev'.seen) ]_vars

C20_Witness ==
    /\ Polled("LINKCLICK_SPAM")
    /\ PressedP(ev.acts) /\ "BTN_CONFIRM_PARTY" \in ev.seen
    /\ bot = [InitBot EXCEPT !.state = "POST_LEAVE_CHECK",
                             !.post_leave_start = now]

\* C21: the asset probe runs only in a LEAVE_PARTY poll taken
\* LEAVE_ICON_TIMEOUT or more after the state was entered in which neither
\* BTN_LEAVE_ICON nor F_TOWERING was detected; it runs only while
\* leave_probe_done is unset and sets it, and the flag then stays set up to
\* the next full reset, so that no second probe runs before that reset.
C21_ProbeOncePerCycle ==
    [][ /\ ev'.probe =>
              /\ pc = "body" /\ bot.state = "LEAVE_PARTY" /\ ev'.kind = "poll"
              /\ now - entered >= LEAVE_ICON_TIMEOUT
              /\ ev'.seen \cap {"BTN_LEAVE_ICON", "F_TOWERING"} = {}
              /\ ~bot.leave_probe_done
              /\ bot'.leave_probe_done
              /\ ~ev'.reset
        /\ (bot.leave_probe_done /\ ~bot'.leave_probe_done) => ev'.reset ]_vars

C21_Witness ==
    /\ Polled("LEAVE_PARTY")
    /\ ev.probe /\ bot.leave_probe_done
    /\ bot.state = "LEAVE_PARTY"
    /\ now - bot.leave_enter_ts >= LEAVE_ICON_TIMEOUT

\* C22: the launcher's status is running only while a bot process is alive
\* with its run flag running, paused only while a bot process is alive and
\* not running, and idle whenever no bot process is alive.
C22_StatusReflectsBot ==
    call.fn = "BlueBotGUI" =>
        /\ call.status_state = "running" => (BotAlive /\ running)
        /\ call.status_state = "paused" => (BotAlive /\ ~running)
        /\ ~BotAlive => call.status_state = "idle"

\* the input calls of one click on the control found by template key
ClickOn(key) == << <<"moveTo", key>>, <<"click", key>> >>

\* C23: a WAIT_HARD poll that reaches the state logic (the F-GUARD not
\* firing) ends in WAIT_MATCH whether or not BTN_TOWERING_HARD is detected;
\* it clicks the control, once, exactly when it is detected, and then sets
\* hard_clicked, which was unset; hard_clicked stays set up to the next full
\* reset, and no poll of another state clicks the control.
C23_WaitHardIsOneShot ==
    [][ /\ (pc = "body" /\ bot.state = "WAIT_HARD" /\ ev'.kind = "poll" /\ ~ev'.guard) =>
              /\ bot'.state = "WAIT_MATCH"
              /\ ~bot.hard_clicked
              /\ IF "BTN_TOWERING_HARD" \in ev'.seen
                 THEN ev'.acts = ClickOn("BTN_TOWERING_HARD") /\ bot'.hard_clicked
                 ELSE ev'.acts = <<>> /\ ~bot'.hard_clicked
        /\ (\E i \in 1..Len(ev'.acts) : ev'.acts[i][2] = "BTN_TOWERING_HARD") =>
              (bot.state = "WAIT_HARD" /\ ~bot.hard_clicked /\ bot'.hard_clicked)
        /\ (bot.hard_clicked /\ ~bot'.hard_clicked) => ev'.reset ]_vars

C23_Witness ==
    /\ Polled("WAIT_HARD")
    /\ ~ev.guard /\ "BTN_TOWERING_HARD" \notin ev.seen
    /\ ev.acts = <<>>
    /\ bot.state = "WAIT_MATCH" /\ ~bot.hard_clicked

\* C24: whenever the state is WAIT_MATCH, match_clicked is false; a
\* WAIT_MATCH poll that reaches the state logic and does not detect BTN_MATCH
\* makes no input call and changes no field; one that detects it clicks it
\* once, sets match_clicked and captain_wait_start = now and goes to
\* BECOME_CAPTAIN.
C24_WaitMatchClicksOnce ==
    [][ /\ bot.state = "WAIT_MATCH" => ~bot.match_clicked
        /\ (pc = "body" /\ bot.state = "WAIT_MATCH" /\ ev'.kind = "poll" /\ ~ev'.guard) =>
              IF "BTN_MATCH" \in ev'.seen
              THEN /\ ev'.acts = ClickOn("BTN_MATCH")
                   /\ bot' = [bot EXCEPT !.match_clicked = TRUE,
                                         !.captain_wait_start = now,
                                         !.state = "BECOME_CAPTAIN"]
              ELSE /\ ev'.acts = <<>>
                   /\ bot' = bot ]_vars

C24_Witness ==
    /\ Polled("WAIT_MATCH")
    /\ "BTN_MATCH" \in ev.seen
    /\ ev.acts = ClickOn("BTN_MATCH")
    /\ bot.state = "BECOME_CAPTAIN" /\ bot.match_clicked
    /\ bot.captain_wait_start = now /\ now > Epoch

\* C25: a BECOME_CAPTAIN poll that reaches the state logic and detects
\* BTN_DECLINE_CPT clicks it, sets match_check_start = now and goes to
\* CHECK_MATCHING_UNTIL_CONFIRM, and presses neither ESC nor I, whether or
\* not CAPTAIN_DECLINE_GRACE has passed since captain_wait_start.
C25_DeclineBeatsGrace ==
    [][ ( /\ pc = "body" /\ bot.state = "BECOME_CAPTAIN"
          /\ ev'.kind = "poll" /\ ~ev'.guard
          /\ "BTN_DECLINE_CPT" \in ev'.seen ) =>
            /\ ev'.acts = ClickOn("BTN_DECLINE_CPT")
            /\ bot' = [bot EXCEPT !.match_check_start = now,
                                  !.state = "CHECK_MATCHING_UNTIL_CONFIRM"] ]_vars

C25_Witness ==
    /\ Polled("BECOME_CAPTAIN")
    /\ "BTN_DECLINE_CPT" \in ev.seen
    /\ ev.acts = ClickOn("BTN_DECLINE_CPT")
    /\ bot.state = "CHECK_MATCHING_UNTIL_CONFIRM"
    /\ bot.match_check_start = now
    /\ now - bot.captain_wait_start >= CAPTAIN_DECLINE_GRACE

\* C26: a CHECK_MATCHING_UNTIL_CONFIRM poll re-clicks BTN_MATCH (and returns
\* to BECOME_CAPTAIN) only when matching_seen is latched and the indicator is
\* now seen in neither region; never before the indicator has been seen
\* since the last full reset.
C26_RetryOnlyAfterMatchingSeen ==
    [][ ( /\ pc = "body" /\ bot.state = "CHECK_MATCHING_UNTIL_CONFIRM"
          /\ ev'.kind = "poll" /\ ~ev'.guard
          /\ (ev'.acts = ClickOn("BTN_MATCH") \/ bot'.state = "BECOME_CAPTAIN") ) =>
            /\ bot'.matching_seen
            /\ ev'.acts = ClickOn("BTN_MATCH")
            /\ bot'.state = "BECOME_CAPTAIN" ]_vars

EndsWithClickOn(acts, key) ==
    /\ Len(acts) >= 2
    /\ SubSeq(acts, Len(acts) - 1, Len(acts)) = ClickOn(key)

\* C28: the state becomes CONFIRM_MONITOR only in a poll of
\* CHECK_MATCHING_UNTIL_CONFIRM, LINKCLICK_SPAM or POST_LEAVE_CHECK that
\* detected BTN_CONFIRM_MATCH and clicked it, and that poll sets
\* confirm_monitor_start and last_confirm_seen to its time.
C28_ConfirmMonitorOnlyByConfirmClick ==
    [][ (bot'.state = "CONFIRM_MONITOR" /\ bot.state # "CONFIRM_MONITOR") =>
          /\ pc = "body" /\ ev'.kind = "poll" /\ ~ev'.guard
          /\ bot.state \in {"CHECK_MATCHING_UNTIL_CONFIRM", "LINKCLICK_SPAM",
                             "POST_LEAVE_CHECK"}
          /\ "BTN_CONFIRM_MATCH" \in ev'.seen
          /\ EndsWithClickOn(ev'.acts, "BTN_CONFIRM_MATCH")
          /\ bot'.confirm_monitor_start = now
          /\ bot'.last_confirm_seen = now ]_vars

C28_Witness ==
    /\ Polled("LINKCLICK_SPAM")
    /\ "BTN_CONFIRM_MATCH" \in ev.seen
    /\ EndsWithClickOn(ev.acts, "BTN_CONFIRM_MATCH")
    /\ bot.state = "CONFIRM_MONITOR"
    /\ bot.confirm_monitor_start = now /\ bot.last_confirm_seen = now

\* C29: a CONFIRM_MONITOR poll that reaches the state logic and detects
\* LBL_VICTORY ends in WAIT_VICTORY_LEAVE, whether or not it also detected
\* and clicked BTN_CONFIRM_MATCH and whether or not the monitor window is
\* over; one that ends in LINKCLICK_SPAM did not detect LBL_VICTORY.
C29_VictoryBeatsSpam ==
    [][ (pc = "body" /\ bot.state = "CONFIRM_MONITOR"
           /\ ev'.kind = "poll" /\ ~ev'.guard) =>
          /\ "LBL_VICTORY" \in ev'.seen => bot'.state = "WAIT_VICTORY_LEAVE"
          /\ bot'.state = "LINKCLICK_SPAM" => "LBL_VICTORY" \notin ev'.seen
          /\ "BTN_CONFIRM_MATCH" \in ev'.seen =>
                EndsWithClickOn(ev'.acts, "BTN_CONFIRM_MATCH") ]_vars

C29_Witness ==
    /\ Polled("CONFIRM_MONITOR")
    /\ {"BTN_CONFIRM_MATCH", "LBL_VICTORY"} \subseteq ev.seen
    /\ EndsWithClickOn(ev.acts, "BTN_CONFIRM_MATCH")
    /\ bot.state = "WAIT_VICTORY_LEAVE"
    /\ now - bot.confirm_monitor_start >= CONFIRM_MONITOR_DURATION

\* the states whose logic calls _maybe_arm_hud_timer
ArmingStates == {"CONFIRM_MONITOR", "LINKCLICK_SPAM"}

\* C30: in every reachable state hud_timer_armed is true exactly when
\* dungeon_timer_start is non-zero. A CONFIRM_MONITOR or LINKCLICK_SPAM poll
\* that reaches the state logic with the timer not armed arms it exactly when
\* its HUD_DUNGEON scan detects the HUD, setting dungeon_timer_start to its
\* time and pressing H once; with the timer armed it does not scan for the
\* HUD and leaves dungeon_timer_start alone, whatever the screen shows.
\* dungeon_timer_start changes in no other way but a full reset, so the timer
\* is armed at most once between two full resets.
C30_FailsafeArmedOnce ==
    /\ [](bot.state # "NONE" =>
             (bot.hud_timer_armed <=> bot.dungeon_timer_start # 0))
    /\ [][ bot.state # "NONE" =>
            /\ ( /\ pc = "body" /\ bot.state \in ArmingStates
                 /\ ev'.kind = "poll" /\ ~ev'.guard ) =>
                  IF bot.hud_timer_armed
                  THEN /\ "HUD_DUNGEON" \notin ev'.seen
                       /\ ~ev'.reset =>
                            bot'.dungeon_timer_start = bot.dungeon_timer_start
                  ELSE IF "HUD_DUNGEON" \in ev'.seen
                  THEN /\ bot'.hud_timer_armed
                       /\ bot'.dungeon_timer_start = now
                       /\ SubSeq(ev'.acts, 1, 2) =
                             << <<"keyDown", "h">>, <<"keyUp", "h">> >>
                  ELSE /\ ~bot'.hud_timer_armed
                       /\ \A i \in 1..Len(ev'.acts) : ev'.acts[i][2] # "h"
            /\ bot'.dungeon_timer_start # bot.dungeon_timer_start =>
                  \/ /\ ~bot.hud_timer_armed /\ bot.state \in ArmingStates
                     /\ "HUD_DUNGEON" \in ev'.seen
                     /\ bot'.dungeon_timer_start = now
                  \/ ev'.reset /\ bot'.dungeon_timer_start = 0 ]_vars

C30_Witness ==
    /\ Polled("LINKCLICK_SPAM")
    /\ ev.hud /\ ~ev.reset
    /\ bot.hud_timer_armed
    /\ bot.dungeon_timer_start # 0
    /\ bot.dungeon_timer_start < now

\* how many of the input calls acts are mouse.click(button='left')
LeftClicks(acts) ==
    Cardinality({ i \in 1..Len(acts) : acts[i] = <<"mouse.click", "left">> })

\* a LINKCLICK_SPAM poll that reaches the state logic is being taken
SpamPoll ==
    /\ pc = "body" /\ bot.state = "LINKCLICK_SPAM"
    /\ ev'.kind = "poll" /\ ~ev'.guard

\* what C31 says of the polls that detect confirm, or victory only
SpamTransitions ==
    IF "BTN_CONFIRM_MATCH" \in ev'.seen
    THEN /\ bot'.state = "CONFIRM_MONITOR"
         /\ EndsWithClickOn(ev'.acts, "BTN_CONFIRM_MATCH")
         /\ LeftClicks(ev'.acts) = 0
    ELSE IF "LBL_VICTORY" \in ev'.seen
    THEN /\ bot'.state = "WAIT_VICTORY_LEAVE"
         /\ LeftClicks(ev'.acts) = 0
    ELSE /\ bot'.state = "LINKCLICK_SPAM"
         /\ LeftClicks(ev'.acts) = 1

\* C31 as stated: a LINKCLICK_SPAM poll that detects BTN_CONFIRM_MATCH
\* clicks it and goes to CONFIRM_MONITOR, one that detects only LBL_VICTORY
\* goes to WAIT_VICTORY_LEAVE, both without a left-click, and every other
\* poll issues exactly one left-click and stays in LINKCLICK_SPAM.
C31_SpamClickOnlyWhenStaying == [][ SpamPoll => SpamTransitions ]_vars

\* C31 as amended: the same, except for the poll in which the failsafe is
\* due and, after P, BTN_CONFIRM_PARTY is detected: that poll scans for
\* neither confirm nor victory, issues no left-click and goes to
\* POST_LEAVE_CHECK. A left-click is issued only by a poll that stays.
C31_SpamClickUnlessFailsafeLeaves ==
    [][ SpamPoll =>
          /\ IF PressedP(ev'.acts) /\ "BTN_CONFIRM_PARTY" \in ev'.seen
             THEN /\ bot'.state = "POST_LEAVE_CHECK"
                  /\ LeftClicks(ev'.acts) = 0
                  /\ ev'.seen \cap {"BTN_CONFIRM_MATCH", "LBL_VICTORY"} = {}
             ELSE SpamTransitions
          /\ LeftClicks(ev'.acts) > 0 => bot'.state = "LINKCLICK_SPAM" ]_vars

C31_Witness ==
    /\ Polled("LINKCLICK_SPAM")
    /\ ev.acts = << <<"press", "p">>, <<"mouse.click", "left">> >>
    /\ ev.seen = {}
    /\ bot.state = "LINKCLICK_SPAM"
    /\ bot.failsafe_last_try_ts = now

\* C32: a POST_LEAVE_CHECK poll that reaches the state logic and detects
\* neither BTN_CONFIRM_MATCH nor F_TOWERING makes no input call; it changes
\* nothing while the time since post_leave_start is POST_LEAVE_WINDOW or
\* less, and performs a full reset (ending in WAIT_F) once it is more.
C32_PostLeaveWindow ==
    [][ MissPoll("POST_LEAVE_CHECK", {"BTN_CONFIRM_MATCH", "F_TOWERING"}) =>
          /\ ev'.acts = <<>>
          /\ IF now - bot.post_leave_start > POST_LEAVE_WINDOW
             THEN ev'.reset /\ bot' = full_reset(bot)
             ELSE ~ev'.reset /\ bot' = bot ]_vars

C32_Witness ==
    /\ Polled("POST_LEAVE_CHECK")
    /\ ~ev.guard /\ ev.seen = {} /\ ev.acts = <<>>
    /\ bot.state = "POST_LEAVE_CHECK"
    /\ now - bot.post_leave_start = POST_LEAVE_WINDOW

\* a LEAVE_PARTY poll is being taken (the F-GUARD never pre-empts it)
LeavePoll ==
    pc = "body" /\ bot.state = "LEAVE_PARTY" /\ ev'.kind = "poll"

\* C33: a LEAVE_PARTY poll taken less than LEAVE_RENDER_GRACE after the
\* entry scans nothing beyond the HUD and does nothing; a later poll that
\* detects BTN_LEAVE_ICON clicks the icon, then clicks BTN_CONFIRM_PARTY if
\* and only if it is detected, then presses ESC, and performs a full reset in
\* the same poll, whether or not the confirmation was found.
C33_LeaveIconPath ==
    [][ LeavePoll =>
          /\ now - bot.leave_enter_ts < LEAVE_RENDER_GRACE =>
                (ev'.seen = {} /\ ev'.acts = <<>> /\ ev'.scans = 1 /\ bot' = bot)
          /\ "BTN_LEAVE_ICON" \in ev'.seen =>
                /\ now - bot.leave_enter_ts >= LEAVE_RENDER_GRACE
                /\ ev'.acts =
                      ClickOn("BTN_LEAVE_ICON")
                      \o (IF "BTN_CONFIRM_PARTY" \in ev'.seen
                          THEN ClickOn("BTN_CONFIRM_PARTY") ELSE <<>>)
                      \o << <<"press", "esc">> >>
                /\ ev'.reset
                /\ bot' = full_reset(bot) ]_vars

C33_Witness ==
    /\ Polled("LEAVE_PARTY")
    /\ ev.seen = {"BTN_LEAVE_ICON"}
    /\ ev.acts = ClickOn("BTN_LEAVE_ICON") \o << <<"press", "esc">> >>
    /\ ev.reset /\ bot.state = "WAIT_F"

\* C34: a LEAVE_PARTY poll that does not detect BTN_LEAVE_ICON makes no
\* input call and changes nothing while less than LEAVE_ICON_TIMEOUT has
\* passed since the state was entered; at or after it, every such poll
\* presses ESC (and nothing else) and scans for F_TOWERING, performing a full
\* reset if it is detected and staying in LEAVE_PARTY if it is not.
C34_LeaveTimeoutPath ==
    [][ (LeavePoll /\ "BTN_LEAVE_ICON" \notin ev'.seen) =>
          /\ bot.leave_enter_ts = entered
          /\ IF now - entered < LEAVE_ICON_TIMEOUT
             THEN /\ ev'.acts = <<>>
                  /\ "F_TOWERING" \notin ev'.seen
                  /\ bot' = bot
             ELSE /\ ev'.acts = << <<"press", "esc">> >>
                  /\ IF "F_TOWERING" \in ev'.seen
                     THEN ev'.reset /\ bot' = full_reset(bot)
                     ELSE ~ev'.reset /\ bot'.state = "LEAVE_PARTY" ]_vars

C34_Witness ==
    /\ Polled("LEAVE_PARTY")
    /\ ev.seen = {}
    /\ ev.acts = << <<"press", "esc">> >>
    /\ bot.state = "LEAVE_PARTY"
    /\ now - bot.leave_enter_ts = LEAVE_ICON_TIMEOUT

\* C35: a poll in which the F-GUARD fires makes its two scans (HUD_DUNGEON,
\* F_TOWERING) and no other, runs no state logic (no re-check, no probe),
\* makes no input call, and changes the controller by exactly a full reset,
\* so that it ends with state = WAIT_F.
C35_GuardOnlyResets ==
    [][ (ev'.kind = "poll" /\ ev'.guard) =>
          /\ pc = "body"
          /\ ev'.scans = 2
          /\ ev'.acts = <<>>
          /\ ~ev'.probe /\ ev'.recheck = ""
          /\ ev'.reset
          /\ bot' = full_reset(bot)
          /\ bot'.state = "WAIT_F" ]_vars

C35_Witness ==
    /\ Polled("LINKCLICK_SPAM")
    /\ ev.guard /\ ev.reset
    /\ ev.acts = <<>> /\ ev.scans = 2
    /\ bot.state = "WAIT_F" /\ ~bot.matching_seen

\* the timestamps _full_reset clears (post_leave_start is not among them)
ResetStamps ==
    { "confirm_monitor_start", "last_confirm_seen", "captain_wait_start",
      "match_check_start", "dungeon_timer_start", "failsafe_last_try_ts",
      "leave_enter_ts", "last_match_retry_ts", "leave_probe_start_ts" }

\* C36: the state becomes WAIT_F only in a poll that performed a full reset,
\* and a WAIT_F poll changes no field but the state; so whenever the state is
\* WAIT_F, hard_clicked, match_clicked, matching_seen, hud_timer_armed and
\* leave_probe_done (and after_leave_cycle) are false and every timestamp
\* that _full_reset clears is zero.
C36_WaitFIsClean ==
    /\ [](bot.state = "WAIT_F" =>
             /\ \A l \in Latches \cup {"after_leave_cycle"} : ~bot[l]
             /\ \A t \in ResetStamps : bot[t] = 0)
    /\ [][ /\ (bot'.state = "WAIT_F" /\ bot.state \notin {"WAIT_F", "NONE"})
                 => (ev'.kind = "poll" /\ ev'.reset)
           /\ (bot.state = "WAIT_F" /\ bot' # bot)
                 => (bot' = [bot EXCEPT !.state = "WAIT_HARD"]) ]_vars

C36_Witness ==
    /\ Polled("POST_LEAVE_CHECK")
    /\ ev.reset
    /\ bot.state = "WAIT_F"
    /\ bot.post_leave_start # 0
    /\ \A t \in ResetStamps : bot[t] = 0

\* the states whose timer runs from the entry, and the stamp each one reads
TimedStates ==
    { "BECOME_CAPTAIN", "CHECK_MATCHING_UNTIL_CONFIRM", "POST_LEAVE_CHECK",
      "LEAVE_PARTY" }

StartStamp(st) ==
    CASE st = "BECOME_CAPTAIN"               -> "captain_wait_start"
      [] st = "CHECK_MATCHING_UNTIL_CONFIRM" -> "match_check_start"
      [] st = "POST_LEAVE_CHECK"             -> "post_leave_start"
      [] st = "LEAVE_PARTY"                  -> "leave_enter_ts"

\* C37: a step that takes the controller into BECOME_CAPTAIN,
\* CHECK_MATCHING_UNTIL_CONFIRM, POST_LEAVE_CHECK or LEAVE_PARTY sets that
\* state's start stamp to the time of the step; and whenever the controller
\* is in one of these states the stamp is the time of its latest entry.
C37_EntryStampsTheTimer ==
    /\ [](bot.state \in TimedStates => bot[StartStamp(bot.state)] = entered)
    /\ [][ (bot'.state \in TimedStates /\ bot'.state # bot.state) =>
              /\ ev'.kind = "poll"
              /\ bot'[StartStamp(bot'.state)] = now ]_vars

C37_Witness ==
    /\ Polled("CHECK_MATCHING_UNTIL_CONFIRM")
    /\ bot.state = "BECOME_CAPTAIN"
    /\ bot.captain_wait_start = now
    /\ bot.match_check_start # 0 /\ bot.match_check_start < now

\* C38: a pause, a resume and the time that passes in between leave every
\* field of the controller, captain_wait_start included, as it was; so when
\* CAPTAIN_DECLINE_GRACE or more has passed in BECOME_CAPTAIN, all of it in
\* pauses, a poll taken after the resume that reaches the state logic and
\* does not detect BTN_DECLINE_CPT presses ESC then I and goes to
\* LEAVE_PARTY.
C38_PauseDoesNotStopTimers ==
    [][ /\ now' # now => (~running /\ ~running')
        /\ ev'.kind \in {"idle", "key", "tick", "enter"} => bot' = bot
        /\ ( /\ MissPoll("BECOME_CAPTAIN", {"BTN_DECLINE_CPT"})
             /\ now - entered >= CAPTAIN_DECLINE_GRACE ) =>
               /\ ev'.acts = EscapeActs
               /\ bot'.state = "LEAVE_PARTY"
               /\ bot'.leave_enter_ts = now ]_vars

C38_Witness ==
    /\ Polled("BECOME_CAPTAIN")
    /\ running
    /\ "BTN_DECLINE_CPT" \notin ev.seen /\ ~ev.guard
    /\ ev.acts = EscapeActs
    /\ bot.state = "LEAVE_PARTY"
    /\ now - bot.captain_wait_start >= CAPTAIN_DECLINE_GRACE
    /\ bot.leave_enter_ts = now

====
